---- MODULE Spec2Model ----
(***************************************************************************)
(* A model of the persistence and access-control slice of CityScene.jsx:   *)
(* the local key-value store (loadData / saveData over localStorage), the  *)
(* startup migration, and the role / account-type gates of SceneContent.   *)
(*                                                                         *)
(* Stored texts are sequences of JSON tokens.  JSON.stringify and          *)
(* JSON.parse are modelled as a serializer and a recursive-descent parser  *)
(* over those tokens; whitespace, escapes, fractions and exponents are not *)
(* modelled.                                                               *)
(***************************************************************************)
EXTENDS Integers, Sequences, FiniteSets, TLC

\* ------------------------------------------------------------------ bounds

\* Longest array / object drawn as a value to save.
MaxLen == 2

\* ------------------------------------------------------------ storage keys

STORAGE_KEY == "VIRTUNOVO_SCENE_DATA"
MASTER_FLAGS_KEY == "VIRTUNOVO_MASTER_FLAGS"

USERS_DB_KEY == "VIRTUNOVO_USERS_DB"
SEASON_KEY == "VIRTUNOVO_SEASON"
BRAND_LEADS_KEY == "VIRTUNOVO_BRAND_LEADS"
FLIGHTS_KEY == "VIRTUNOVO_FLIGHTS"
COMPLIANCE_NOTES_KEY == "VIRTUNOVO_COMPLIANCE_NOTES"

\* The keys the store specification loads and saves.
StoreKeys == {STORAGE_KEY, MASTER_FLAGS_KEY}

\* localStorage.getItem returns null for a key that is not stored.
Absent == <<"<null>">>

\* -------------------------------------------------------------- JS values
\* One record shape for every value: t is the type tag, the other fields
\* carry the payload of that type and are blank otherwise.

JVal(t, b, n, s, ks, vs) == [t |-> t, b |-> b, n |-> n, s |-> s, ks |-> ks, vs |-> vs]
JNull == JVal("null", FALSE, 0, "", <<>>, <<>>)
JBool(b) == JVal("bool", b, 0, "", <<>>, <<>>)
JNum(n) == JVal("num", FALSE, n, "", <<>>, <<>>)
JStr(s) == JVal("str", FALSE, 0, s, <<>>, <<>>)
JArr(vs) == JVal("arr", FALSE, 0, "", <<>>, vs)
JObj(ks, vs) == JVal("obj", FALSE, 0, "", ks, vs)
\* Values that are not JSON-safe: undefined and NaN.
JUndefined == JVal("undefined", FALSE, 0, "", <<>>, <<>>)
JNaN == JVal("nan", FALSE, 0, "", <<>>, <<>>)

\* ---------------------------------------------------------- JSON.stringify

DigitToks == <<"0", "1", "2", "3", "4", "5", "6", "7", "8", "9">>

RECURSIVE ToDigits(_)
ToDigits(n) ==
    IF n < 10 THEN <<DigitToks[n + 1]>>
    ELSE ToDigits(n \div 10) \o <<DigitToks[(n % 10) + 1]>>

\* F applied to the value of x, x being computed once (a const binding).
With(x, F(_)) == CHOOSE r \in {F(y) : y \in {x}} : TRUE

QuoteString(s) == IF s = "" THEN <<"\"", "\"">> ELSE <<"\"", s, "\"">>

\* JSON.stringify(val).  undefined yields undefined, which setItem then
\* coerces to the text undefined; NaN is written as null.  Inside an array
\* undefined is written as null; a property whose value is undefined is
\* left out.
RECURSIVE JSONstringify(_)
JSONstringify(val) ==
    LET RECURSIVE Elems(_, _)
        Elems(vs, i) ==
            IF i > Len(vs) THEN <<>>
            ELSE (IF i > 1 THEN <<",">> ELSE <<>>)
                 \o (IF vs[i].t = "undefined" THEN <<"null">> ELSE JSONstringify(vs[i]))
                 \o Elems(vs, i + 1)
        RECURSIVE Members(_, _, _, _)
        Members(ks, vs, i, first) ==
            IF i > Len(ks) THEN <<>>
            ELSE IF vs[i].t = "undefined" THEN Members(ks, vs, i + 1, first)
            ELSE (IF first THEN <<>> ELSE <<",">>)
                 \o QuoteString(ks[i]) \o <<":">> \o JSONstringify(vs[i])
                 \o Members(ks, vs, i + 1, FALSE)
    IN  With(val, LAMBDA v :
          CASE v.t = "null" -> <<"null">>
            [] v.t = "nan" -> <<"null">>
            [] v.t = "undefined" -> <<"undefined">>
            [] v.t = "bool" -> IF v.b THEN <<"true">> ELSE <<"false">>
            [] v.t = "num" -> IF v.n < 0 THEN <<"-">> \o ToDigits(-v.n) ELSE ToDigits(v.n)
            [] v.t = "str" -> QuoteString(v.s)
            [] v.t = "arr" -> <<"[">> \o Elems(v.vs, 1) \o <<"]">>
            [] v.t = "obj" -> <<"{">> \o Members(v.ks, v.vs, 1, TRUE) \o <<"}">>)

\* -------------------------------------------------------------- JSON.parse

PR(ok, v, rest) == [ok |-> ok, v |-> v, rest |-> rest]
ParseFail == PR(FALSE, JNull, <<>>)

IsDigit(tok) == \E i \in 1..10 : DigitToks[i] = tok
DigitOf(tok) == (CHOOSE i \in 1..10 : DigitToks[i] = tok) - 1

\* A string literal: quote, optional content token, quote.
ParseString(toks) ==
    IF Len(toks) >= 2 /\ toks[1] = "\"" /\ toks[2] = "\""
    THEN PR(TRUE, JStr(""), SubSeq(toks, 3, Len(toks)))
    ELSE IF Len(toks) >= 3 /\ toks[1] = "\"" /\ toks[2] # "\"" /\ toks[3] = "\""
    THEN PR(TRUE, JStr(toks[2]), SubSeq(toks, 4, Len(toks)))
    ELSE ParseFail

\* A number: optional minus, then 0 or a digit string with no leading zero.
ParseNumber(toks) ==
    LET neg == toks # <<>> /\ Head(toks) = "-"
        ds == IF neg THEN Tail(toks) ELSE toks
        RECURSIVE Digits(_, _)
        Digits(rest, acc) ==
            IF rest # <<>> /\ IsDigit(Head(rest))
            THEN Digits(Tail(rest), acc * 10 + DigitOf(Head(rest)))
            ELSE PR(TRUE, JNum(IF neg THEN -acc ELSE acc), rest)
    IN  IF ds = <<>> \/ ~IsDigit(Head(ds)) THEN ParseFail
        ELSE IF Head(ds) = "0"
        THEN (IF Len(ds) >= 2 /\ IsDigit(ds[2]) THEN ParseFail
              ELSE PR(TRUE, JNum(0), Tail(ds)))
        ELSE Digits(ds, 0)

\* obj with key k set to v: an existing key keeps its place, a new key is
\* appended (the property order of a JS object).
SetKey(o, k, v) ==
    IF \E i \in 1..Len(o.ks) : o.ks[i] = k
    THEN JObj(o.ks, [i \in 1..Len(o.ks) |-> IF o.ks[i] = k THEN v ELSE o.vs[i]])
    ELSE JObj(Append(o.ks, k), Append(o.vs, v))

RECURSIVE ParseValue(_)
ParseValue(text) ==
    LET RECURSIVE ParseElements(_, _)
        ParseElements(ts, elems) ==
            With(<<ParseValue(ts), elems>>, LAMBDA c :
              LET e == c[1]
                  acc == c[2]
              IN  IF ~e.ok \/ e.rest = <<>> THEN ParseFail
                  ELSE IF Head(e.rest) = ","
                  THEN ParseElements(Tail(e.rest), Append(acc, e.v))
                  ELSE IF Head(e.rest) = "]"
                  THEN PR(TRUE, JArr(Append(acc, e.v)), Tail(e.rest))
                  ELSE ParseFail)
        RECURSIVE ParseMembers(_, _)
        ParseMembers(ts, members) ==
            With(<<ParseString(ts), members>>, LAMBDA c :
              LET k == c[1]
                  acc == c[2]
              IN  IF ~k.ok \/ k.rest = <<>> \/ Head(k.rest) # ":" THEN ParseFail
                  ELSE With(ParseValue(Tail(k.rest)), LAMBDA e :
                         IF ~e.ok \/ e.rest = <<>> THEN ParseFail
                         ELSE IF Head(e.rest) = ","
                         THEN ParseMembers(Tail(e.rest), SetKey(acc, k.v.s, e.v))
                         ELSE IF Head(e.rest) = "}"
                         THEN PR(TRUE, SetKey(acc, k.v.s, e.v), Tail(e.rest))
                         ELSE ParseFail))
    IN  With(text, LAMBDA toks :
          IF toks = <<>> THEN ParseFail
          ELSE LET h == Head(toks)
                   t == Tail(toks)
               IN  CASE h = "null" -> PR(TRUE, JNull, t)
                     [] h = "true" -> PR(TRUE, JBool(TRUE), t)
                     [] h = "false" -> PR(TRUE, JBool(FALSE), t)
                     [] h = "\"" -> ParseString(toks)
                     [] h = "-" \/ IsDigit(h) -> ParseNumber(toks)
                     [] h = "[" ->
                          IF t # <<>> /\ Head(t) = "]" THEN PR(TRUE, JArr(<<>>), Tail(t))
                          ELSE ParseElements(t, <<>>)
                     [] h = "{" ->
                          IF t # <<>> /\ Head(t) = "}" THEN PR(TRUE, JObj(<<>>, <<>>), Tail(t))
                          ELSE ParseMembers(t, JObj(<<>>, <<>>))
                     [] OTHER -> ParseFail)

\* JSON.parse(text): ok is FALSE where the code gets a SyntaxError.
JSONparse(text) ==
    With(ParseValue(text), LAMBDA r :
      IF r.ok /\ r.rest = <<>> THEN [ok |-> TRUE, v |-> r.v]
      ELSE [ok |-> FALSE, v |-> JNull])

\* ------------------------------------------------------ values and texts

Atoms ==
    {JNull, JBool(FALSE), JBool(TRUE), JNum(0), JNum(-1), JNum(10), JStr(""), JStr("a")}

\* What the drawn arrays and objects hold, and the objects' keys.
ElemSeq == <<JNull, JNum(0), JStr(""), JBool(FALSE), JNum(10)>>
KeyNames == <<"a", "b", "c", "d", "e">>

Nested ==
    { JObj(<<"a">>, <<JArr(<<JObj(<<"b">>, <<JStr("")>>), JBool(FALSE)>>)>>),
      JArr(<<JArr(<<>>), JObj(<<>>, <<>>)>>) }

\* JSON-safe values: what JSON.stringify writes and JSON.parse reads back.
JsonSafeVals ==
    Atoms
    \cup {JArr(SubSeq(ElemSeq, 1, m)) : m \in 0..MaxLen}
    \cup {JObj(SubSeq(KeyNames, 1, m), SubSeq(ElemSeq, 1, m)) : m \in 0..MaxLen}
    \cup Nested

\* A value holding a reference cycle: JSON.stringify throws a TypeError.
JCircular == JVal("circular", FALSE, 0, "", <<>>, <<>>)

\* Every value a caller may hand to saveData.
SaveVals == JsonSafeVals \cup {JUndefined, JNaN, JCircular}

\* Texts that are not JSON: a truncated object, a bare word, a number with a
\* leading zero, an array with a trailing comma.
InvalidTexts ==
    { <<"{", "\"", "a", "\"", ":">>, <<"hello">>, <<"0", "1">>, <<"[", "1", ",", "]">> }

EmptyText == <<>>

\* What a key may hold when the page loads.
InitTexts ==
    {Absent, EmptyText} \cup InvalidTexts
    \cup {JSONstringify(v) : v \in {JNull, JNum(0), JStr(""), JObj(<<"a">>, <<JNull>>)}}

\* Defaults handed to loadData.
Defs == {JArr(<<>>), JStr("def")}

\* ------------------------------------------------------------------ state

VARIABLES
    store,          \* localStorage: key -> text, or Absent
    lastOp,         \* the last store operation and its outcome
    mounted,        \* whether the mount effects of SceneContent have run
    migWrites,      \* keys migrateLocalStorage called saveData for
    migThrew,       \* whether migrateLocalStorage ended by an exception
    masterFlags,    \* SceneContent state: the feature flags
    viewState,      \* SceneContent state: "LANDING" or "TRANSITION"
    isAdmin,
    currentUser,    \* the logged-in user record, or null
    authMode,       \* showAuth and the mode of UnifiedAuthModal
    showOnboarding,
    showMaster,
    sceneData,
    selectedIds,    \* the Set selectedIds, in insertion order
    brandModeEnabled,
    showBrandPanel,
    showProgressDrawer,
    showMissions,
    showVault,
    userList,       \* UserManagementModal state; undefined while it is not rendered
    tabs,           \* the read-modify-write each open tab is in the middle of
    showCmdPalette,
    showInvite,
    hasError,       \* the LocalErrorBoundary instances whose state.hasError is set
    rootUnmounted,  \* React has unmounted the tree after an error no boundary caught
    currentSponsor, \* ProximityTracker state: the id of the billboard in range, or ""
    sponsorRefs,    \* inRangeRef, dwellSecondsByIdRef, impressionLoggedRef, lastDwellEmitRef
    now,            \* the clock, in seconds
    toast,          \* ToastProvider state: the toast shown (with the time it was set), or none
    timers,         \* the times at which the pending setTimeout callbacks of showToast are due
    config,         \* ContentEditorPanel state; undefined while it is not rendered
    seo,
    draft

storeVars == <<store, lastOp>>
migVars == <<mounted, migWrites, migThrew>>
uiVars ==
    <<viewState, isAdmin, currentUser, authMode, showOnboarding, showMaster, sceneData,
      selectedIds, brandModeEnabled, showBrandPanel, showProgressDrawer, showMissions,
      showVault, userList>>
extVars ==
    <<tabs, showCmdPalette, showInvite, hasError, rootUnmounted, currentSponsor, sponsorRefs,
      now, toast, timers, config, seo, draft>>
vars == <<store, lastOp, mounted, migWrites, migThrew, masterFlags, uiVars, extVars>>

\* The tabs of the browser that have the page open.
Tabs == {1, 2}

\* No tab is in the middle of a read-modify-write.
IdleJob == [pc |-> "idle", op |-> "none", arg |-> "", text |-> <<>>, done |-> <<>>]

\* The billboards ProximityTracker is given as targets.
BillboardIds == {"BILLBOARD_0", "BILLBOARD_1"}

\* The four refs of the sponsor handlers, all {} at first: a missing entry
\* reads as undefined, which the handlers treat as false and 0.
NoRefs ==
    [inRange |-> [id \in BillboardIds |-> FALSE],
     dwellSeconds |-> [id \in BillboardIds |-> 0],
     impressionLogged |-> [id \in BillboardIds |-> FALSE],
     lastDwellEmit |-> [id \in BillboardIds |-> 0]]

\* useState(null) of ToastProvider
NoToast == [msg |-> "", type |-> "", at |-> 0]

toastVars == <<now, toast, timers>>
contentVars == <<config, seo, draft>>

\* Nothing but the page itself is under way.
Quiet ==
    /\ tabs = [t \in Tabs |-> IdleJob]
    /\ showCmdPalette = FALSE
    /\ showInvite = FALSE
    /\ hasError = {}
    /\ rootUnmounted = FALSE
    /\ currentSponsor = ""
    /\ sponsorRefs = NoRefs
    /\ now = 0
    /\ toast = NoToast
    /\ timers = {}
    /\ config = JUndefined
    /\ seo = JUndefined
    /\ draft = JUndefined

\* The component state other than the flags while SceneContent is not
\* rendered: the values the useState calls start from on an empty store.
NoScene ==
    /\ viewState = "LANDING"
    /\ isAdmin = FALSE
    /\ currentUser = JNull
    /\ authMode = "CLOSED"
    /\ showOnboarding = FALSE
    /\ showMaster = FALSE
    /\ sceneData = JNull
    /\ selectedIds = <<>>
    /\ brandModeEnabled = FALSE
    /\ showBrandPanel = FALSE
    /\ showProgressDrawer = FALSE
    /\ showMissions = FALSE
    /\ showVault = FALSE
    /\ userList = JUndefined

NoOp ==
    [op |-> "none", key |-> "", val |-> JNull, def |-> JNull, ret |-> JNull,
     threw |-> FALSE, wrote |-> FALSE, failed |-> FALSE, calls |-> 0]

\* ------------------------------------------------- loadData / saveData

\* localStorage.getItem(key)
getItem(st, key) == st[key]

\* localStorage.setItem(key, text): on a full quota it throws and stores
\* nothing.
setItem(st, key, text, quota) ==
    IF quota THEN [ok |-> FALSE, store |-> st]
    ELSE [ok |-> TRUE, store |-> [st EXCEPT ![key] = text]]

\* loadData without its try/catch: a SyntaxError of JSON.parse propagates.
loadData_NoCatch(st, key, def) ==
    LET s == getItem(st, key)
    IN  IF s = Absent \/ s = EmptyText THEN [ret |-> def, threw |-> FALSE]
        ELSE LET p == JSONparse(s)
             IN  IF p.ok THEN [ret |-> p.v, threw |-> FALSE]
                 ELSE [ret |-> JUndefined, threw |-> TRUE]

\* loadData falling back on the parsed value (JSON.parse(s) || def) instead
\* of on the stored text.
loadData_FalsyDefault(st, key, def) ==
    LET s == getItem(st, key)
        p == JSONparse(s)
        falsy == p.v \in {JNull, JBool(FALSE), JNum(0), JStr("")}
    IN  IF s = Absent \/ s = EmptyText \/ ~p.ok \/ falsy THEN [ret |-> def, threw |-> FALSE]
        ELSE [ret |-> p.v, threw |-> FALSE]

\* try { s = getItem(key); return s ? JSON.parse(s) : def } catch { return def }
loadData(st, key, def) ==
    LET s == getItem(st, key)
    IN  IF s = Absent \/ s = EmptyText THEN [ret |-> def, threw |-> FALSE]
        ELSE With(JSONparse(s), LAMBDA p :
               IF p.ok THEN [ret |-> p.v, threw |-> FALSE]
               ELSE [ret |-> def, threw |-> FALSE])

\* saveData that removes the key and tries once more when the write fails.
saveData_RetryAfterRemove(st, key, val, quota) ==
    IF val.t = "circular"
    THEN [store |-> st, threw |-> FALSE, wrote |-> FALSE, failed |-> TRUE, calls |-> 0]
    ELSE LET w == setItem(st, key, JSONstringify(val), quota)
         IN  IF w.ok
             THEN [store |-> w.store, threw |-> FALSE, wrote |-> TRUE, failed |-> FALSE,
                   calls |-> 1]
             ELSE [store |-> [st EXCEPT ![key] = Absent], threw |-> FALSE,
                   wrote |-> FALSE, failed |-> TRUE, calls |-> 2]

\* try { setItem(key, JSON.stringify(val)) } catch { console.warn(...) }
saveData(st, key, val, quota) ==
    IF val.t = "circular"
    THEN [store |-> st, threw |-> FALSE, wrote |-> FALSE, failed |-> TRUE, calls |-> 0]
    ELSE LET w == setItem(st, key, JSONstringify(val), quota)
         IN  [store |-> w.store, threw |-> FALSE, wrote |-> w.ok, failed |-> ~w.ok,
              calls |-> 1]

\* ------------------------------------------------------ store operations

InitStore ==
    /\ store \in [StoreKeys -> InitTexts]
    /\ lastOp = NoOp
    /\ mounted = FALSE
    /\ migWrites = {}
    /\ migThrew = FALSE
    /\ Quiet
    /\ masterFlags = JNull
    /\ NoScene

LoadData(key, def) ==
    \E r \in {loadData(store, key, def)} :
        /\ lastOp' = [NoOp EXCEPT !.op = "load", !.key = key, !.def = def,
                                  !.ret = r.ret, !.threw = r.threw]
        /\ UNCHANGED <<store, migVars, extVars, masterFlags, uiVars>>

SaveData(key, val, quota) ==
    \E r \in {saveData(store, key, val, quota)} :
        /\ store' = r.store
        /\ lastOp' = [NoOp EXCEPT !.op = "save", !.key = key, !.val = val,
                                  !.threw = r.threw, !.wrote = r.wrote,
                                  !.failed = r.failed, !.calls = r.calls]
        /\ UNCHANGED <<migVars, extVars, masterFlags, uiVars>>

NextStore ==
    \/ \E key \in StoreKeys, def \in Defs : LoadData(key, def)
    \/ \E key \in StoreKeys, val \in SaveVals, quota \in BOOLEAN : SaveData(key, val, quota)

SpecStore == InitStore /\ [][NextStore]_vars

\* ------------------------------------------------------- JS object helpers

\* The truthiness of a JS value.
Truthy(v) ==
    ~ \/ v.t \in {"null", "undefined", "nan"}
      \/ v.t = "bool" /\ ~v.b
      \/ v.t = "num" /\ v.n = 0
      \/ v.t = "str" /\ v.s = ""

HasKey(o, k) == o.t = "obj" /\ \E i \in 1..Len(o.ks) : o.ks[i] = k

\* o.k (o?.k for null and undefined): undefined for a missing property.
Get(o, k) ==
    IF HasKey(o, k) THEN o.vs[CHOOSE i \in 1..Len(o.ks) : o.ks[i] = k]
    ELSE JUndefined

KeySet(o) == {o.ks[i] : i \in 1..Len(o.ks)}

\* { ...target, ...src } for an object target: the own properties of src, in
\* their order, written over target.  Spreading null, undefined, a number
\* or a boolean adds nothing.
RECURSIVE SpreadFrom(_, _, _)
SpreadFrom(target, src, i) ==
    IF i > Len(src.ks) THEN target
    ELSE With(SetKey(target, src.ks[i], src.vs[i]), LAMBDA acc :
           SpreadFrom(acc, src, i + 1))

Spread(target, src) ==
    With(<<target, src>>, LAMBDA c :
      IF c[2].t = "obj" THEN SpreadFrom(c[1], c[2], 1) ELSE c[1])

EmptyObj == JObj(<<>>, <<>>)
EmptyArr == JArr(<<>>)

\* ------------------------------------------------------------ master flags

\* The flags of DEFAULT_MASTER_FLAGS that gate what is modelled here, in
\* their order there; the flags that only switch scenery and panels on and
\* off are left out.
FlagNames ==
    << "maintenanceMode", "showCustomerProgressDrawer", "enableAuditLog",
       "enableBrandMode", "enableFlightPlan", "enableLeadsPanel",
       "enableCommandPalette", "enableGuidedTour", "missionsForGuest",
       "enableBrandModeGate" >>

\* Every flag defaults to true but maintenanceMode.
DEFAULT_MASTER_FLAGS ==
    JObj(FlagNames, [i \in 1..Len(FlagNames) |-> JBool(FlagNames[i] # "maintenanceMode")])

\* The season pass record the migration creates.
DEFAULT_SEASON ==
    JObj(<<"seasonId", "label", "level", "maxLevel">>,
         <<JStr("S1"), JStr("Genesis Season"), JNum(1), JNum(10)>>)

ROLE_VISITOR == "VISITOR"

\* ------------------------------------------------------ migrateLocalStorage

\* { ...DEFAULT_MASTER_FLAGS, ...currentFlags } with the operands swapped:
\* the defaults overwrite what is stored.
mergeFlags_DefaultsWin(currentFlags) ==
    IF currentFlags.t = "obj" THEN Spread(currentFlags, DEFAULT_MASTER_FLAGS)
    ELSE DEFAULT_MASTER_FLAGS

\* { ...currentFlags }: the merge without the defaults.
mergeFlags_StoredOnly(currentFlags) ==
    IF currentFlags.t = "obj" THEN currentFlags ELSE EmptyObj

\* const mergedFlags = { ...DEFAULT_MASTER_FLAGS, ...currentFlags }
mergeFlags(currentFlags) == Spread(DEFAULT_MASTER_FLAGS, currentFlags)

\* mergedFlags !== currentFlags: two objects compared by identity, which a
\* fresh object literal never shares.
flagsDiffer_ByReference(mergedFlags, currentFlags) == TRUE

\* if (JSON.stringify(mergedFlags) !== JSON.stringify(currentFlags))
flagsDiffer(mergedFlags, currentFlags) ==
    JSONstringify(mergedFlags) # JSONstringify(currentFlags)

\* users.map(u => !u.role ? { ...u, role: VISITOR } : u) throws a TypeError
\* when users is not an array or holds null.
usersMapThrows(users) ==
    \/ users.t # "arr"
    \/ \E i \in 1..Len(users.vs) : users.vs[i].t = "null"

needsRole(u) == ~Truthy(Get(u, "role"))

\* users.map(u => !u.role ? { role: VISITOR } : u): the record is not
\* spread into the new one.
updateUsers_RoleOnly(users) ==
    JArr([i \in 1..Len(users.vs) |->
            IF ~Truthy(Get(users.vs[i], "role"))
            THEN JObj(<<"role">>, <<JStr("VISITOR")>>)
            ELSE users.vs[i]])

updateUsers(users) ==
    JArr([i \in 1..Len(users.vs) |->
            IF needsRole(users.vs[i])
            THEN SetKey(Spread(EmptyObj, users.vs[i]), "role", JStr(ROLE_VISITOR))
            ELSE users.vs[i]])

\* The auxiliary keys of step 3, in the order they are tested, with the
\* value each is created with.
EnterpriseKeys == <<SEASON_KEY, BRAND_LEADS_KEY, FLIGHTS_KEY, COMPLIANCE_NOTES_KEY>>
EnterpriseDefaults == <<DEFAULT_SEASON, EmptyArr, EmptyArr, EmptyObj>>

\* saveData(key, default) for each key, without the test of what is stored.
RECURSIVE ensureEnterpriseKeys_Always(_, _, _)
ensureEnterpriseKeys_Always(st, full, i) ==
    IF i > Len(EnterpriseKeys) THEN [store |-> st, writes |-> {}]
    ELSE With(saveData(st, EnterpriseKeys[i], EnterpriseDefaults[i],
                       EnterpriseKeys[i] \in full).store, LAMBDA st1 :
           With(ensureEnterpriseKeys_Always(st1, full, i + 1), LAMBDA rest :
             [store |-> rest.store, writes |-> rest.writes \cup {EnterpriseKeys[i]}]))

\* if (!localStorage.getItem(key)) saveData(key, default), for each key.
RECURSIVE ensureEnterpriseKeys(_, _, _)
ensureEnterpriseKeys(st, full, i) ==
    IF i > Len(EnterpriseKeys) THEN [store |-> st, writes |-> {}]
    ELSE LET k == EnterpriseKeys[i]
             missing == getItem(st, k) = Absent \/ getItem(st, k) = EmptyText
         IN  With(IF missing
                  THEN saveData(st, k, EnterpriseDefaults[i], k \in full).store
                  ELSE st,
                  LAMBDA st1 :
                    With(ensureEnterpriseKeys(st1, full, i + 1), LAMBDA rest :
                      [store |-> rest.store,
                       writes |-> rest.writes \cup (IF missing THEN {k} ELSE {})]))

\* migrateLocalStorage() on store st; full is the set of keys whose write
\* fails for lack of quota.  setFlags says whether setMasterFlags(mergedFlags)
\* was called.
migrateLocalStorage(st, full) ==
    With(loadData(st, MASTER_FLAGS_KEY, EmptyObj).ret, LAMBDA currentFlags :
    With(mergeFlags(currentFlags), LAMBDA mergedFlags :
    With(flagsDiffer(mergedFlags, currentFlags), LAMBDA differ :
    With(IF differ
         THEN saveData(st, MASTER_FLAGS_KEY, mergedFlags, MASTER_FLAGS_KEY \in full).store
         ELSE st, LAMBDA st1 :
    With(loadData(st1, USERS_DB_KEY, EmptyArr).ret, LAMBDA users :
      LET w1 == IF differ THEN {MASTER_FLAGS_KEY} ELSE {}
      IN  IF usersMapThrows(users)
          THEN [store |-> st1, writes |-> w1, threw |-> TRUE,
                setFlags |-> differ, mergedFlags |-> mergedFlags]
          ELSE LET usersChanged == \E i \in 1..Len(users.vs) : needsRole(users.vs[i])
                   w2 == IF usersChanged THEN {USERS_DB_KEY} ELSE {}
               IN  With(IF usersChanged
                        THEN saveData(st1, USERS_DB_KEY, updateUsers(users),
                                      USERS_DB_KEY \in full).store
                        ELSE st1, LAMBDA st2 :
                   With(ensureEnterpriseKeys(st2, full, 1), LAMBDA e :
                     [store |-> e.store, writes |-> w1 \cup w2 \cup e.writes,
                      threw |-> FALSE, setFlags |-> differ,
                      mergedFlags |-> mergedFlags])))))))

\* ------------------------------------------------------ migration: state

MigKeys ==
    {MASTER_FLAGS_KEY, USERS_DB_KEY, SEASON_KEY, BRAND_LEADS_KEY, FLIGHTS_KEY,
     COMPLIANCE_NOTES_KEY}

\* Flag records a browser may hold when the page loads: written by this
\* version, by a version with fewer flags, or by a version that still had a
\* flag (legacyFlag) the defaults no longer list.
WithoutKeys(o, drop) ==
    LET keep == SelectSeq([i \in 1..Len(o.ks) |-> i], LAMBDA i : o.ks[i] \notin drop)
    IN  JObj([j \in 1..Len(keep) |-> o.ks[keep[j]]], [j \in 1..Len(keep) |-> o.vs[keep[j]]])

\* The flags the header lists as new (RBAC and scoping).
NewFlagNames == {"missionsForGuest", "enableBrandModeGate"}

OldVersionFlags == WithoutKeys(DEFAULT_MASTER_FLAGS, NewFlagNames)

StoredFlagRecords ==
    { EmptyObj,
      DEFAULT_MASTER_FLAGS,
      SetKey(DEFAULT_MASTER_FLAGS, "maintenanceMode", JBool(TRUE)),
      SetKey(OldVersionFlags, "enableGuidedTour", JBool(FALSE)),
      SetKey(DEFAULT_MASTER_FLAGS, "legacyFlag", JBool(TRUE)),
      Spread(JObj(<<"legacyFlag">>, <<JBool(FALSE)>>), DEFAULT_MASTER_FLAGS),
      JObj(<<"legacyFlag", "enableAuditLog">>, <<JBool(TRUE), JBool(FALSE)>>) }

StoredFlagTexts ==
    {Absent, EmptyText, <<"hello">>, <<"null">>}
    \cup {JSONstringify(f) : f \in StoredFlagRecords}

User(email, role) ==
    JObj(<<"email", "password", "name", "role">>,
         <<JStr(email), JStr("pw"), JStr("n"), JStr(role)>>)
UserNoRole(email) ==
    JObj(<<"email", "password", "name">>, <<JStr(email), JStr("pw"), JStr("n")>>)

StoredUserTexts ==
    {Absent, <<"{", "}">>}
    \cup {JSONstringify(JArr(us)) :
            us \in { <<>>,
                     <<User("a@x", "EDITOR")>>,
                     <<UserNoRole("a@x"), User("b@x", "ADMIN")>>,
                     <<User("a@x", "EDITOR"), UserNoRole("b@x"),
                       SetKey(UserNoRole("c@x"), "role", JStr(""))>> }}

StoredEnterpriseTexts(k) ==
    IF k = SEASON_KEY
    THEN {Absent, EmptyText,
          JSONstringify(SetKey(DEFAULT_SEASON, "level", JNum(3)))}
    ELSE IF k = BRAND_LEADS_KEY
    THEN {Absent, JSONstringify(JArr(<<JObj(<<"company">>, <<JStr("Acme")>>)>>))}
    ELSE IF k = FLIGHTS_KEY
    THEN {Absent, JSONstringify(EmptyArr)}
    ELSE {Absent, <<"hello">>}

\* Which writes fail together: none, the flags, the users, the season, all.
FullSets == {{}, {MASTER_FLAGS_KEY}, {USERS_DB_KEY}, {SEASON_KEY}, MigKeys}

\* useState(() => loadData(MASTER_FLAGS_KEY, DEFAULT_MASTER_FLAGS))
initialMasterFlags(st) == loadData(st, MASTER_FLAGS_KEY, DEFAULT_MASTER_FLAGS).ret

InitMig ==
    /\ \E f \in StoredFlagTexts, u \in StoredUserTexts,
          se \in StoredEnterpriseTexts(SEASON_KEY),
          le \in StoredEnterpriseTexts(BRAND_LEADS_KEY),
          fl \in StoredEnterpriseTexts(FLIGHTS_KEY),
          co \in StoredEnterpriseTexts(COMPLIANCE_NOTES_KEY) :
        store = [k \in MigKeys |->
                   IF k = MASTER_FLAGS_KEY THEN f
                   ELSE IF k = USERS_DB_KEY THEN u
                   ELSE IF k = SEASON_KEY THEN se
                   ELSE IF k = BRAND_LEADS_KEY THEN le
                   ELSE IF k = FLIGHTS_KEY THEN fl
                   ELSE co]
    /\ lastOp = NoOp
    /\ mounted = FALSE
    /\ migWrites = {}
    /\ migThrew = FALSE
    /\ Quiet
    /\ masterFlags = initialMasterFlags(store)
    /\ NoScene

\* The mount effect that runs migrateLocalStorage.
Migrate(full) ==
    /\ ~mounted
    /\ \E r \in {migrateLocalStorage(store, full)} :
        /\ store' = r.store
        /\ migWrites' = r.writes
        /\ migThrew' = r.threw
        /\ UNCHANGED extVars
        /\ masterFlags' = IF r.setFlags THEN r.mergedFlags ELSE masterFlags
    /\ mounted' = TRUE
    /\ UNCHANGED <<lastOp, uiVars>>

\* The page is loaded again: the component state is rebuilt from the store.
Reload ==
    /\ mounted
    /\ mounted' = FALSE
    /\ migWrites' = {}
    /\ migThrew' = FALSE
    /\ UNCHANGED extVars
    /\ masterFlags' = initialMasterFlags(store)
    /\ UNCHANGED <<store, lastOp, uiVars>>

NextMig ==
    \/ \E full \in FullSets : Migrate(full)
    \/ Reload

SpecMig == InitMig /\ [][NextMig]_vars

\* ============================================================ SceneContent
\* The logic root: its state, what it renders under which condition, and
\* its handlers.  Rendering is a function of the state; a handler ends with
\* the effects React runs for the state it changed.

\* --------------------------------------------------- more keys, constants

AUTH_STATE_KEY == "VIRTUNOVO_AUTH_STATE"
USER_SESSION_KEY == "VIRTUNOVO_REMEMBER_USER"
IS_ADMIN_KEY == "VIRTUNOVO_IS_ADMIN"
ADMIN_CONFIG_KEY == "VIRTUNOVO_ADMIN_CONFIG"
ADMIN_LOGS_KEY == "VIRTUNOVO_ADMIN_LOGS"
BRAND_MODE_KEY == "VIRTUNOVO_BRAND_MODE"
KEYS_ANALYTICS == "VIRTUNOVO_ANALYTICS"
KEYS_EVENTS_LOG == "VIRTUNOVO_EVENTS_LOG"

SceneKeys ==
    MigKeys \cup {STORAGE_KEY, AUTH_STATE_KEY, USER_SESSION_KEY, IS_ADMIN_KEY,
                  ADMIN_CONFIG_KEY, ADMIN_LOGS_KEY, BRAND_MODE_KEY, KEYS_ANALYTICS,
                  KEYS_EVENTS_LOG}

\* logs.length > 200 in logEvent, logs.length > 500 in logAdmin.
ANALYTICS_CAP == 200
ADMIN_LOGS_CAP == 500

\* Longest analytics log and admin log the scene specifications let grow.
MaxEvents == 4
MaxAdminLogs == 2

ACCOUNT_INDIVIDUAL == "individual"
ACCOUNT_ORGANIZATION == "organization"
ROLE_ADMIN == "ADMIN"
ROLE_ORG_ADMIN == "ORG_ADMIN"

DEFAULT_ADMIN_CONFIG ==
    JObj(<<"email", "password", "secretCode">>,
         <<JStr("admin@virtunovo.com"), JStr("password"), JStr("123456")>>)

\* DEFAULT_SCENE_DATA with the hero tower and one billboard, without their
\* geometry and colours.
DEFAULT_SCENE_DATA ==
    JObj(<<"HERO", "BILLBOARD_0">>,
         << JObj(<<"hText", "vText">>, <<JStr("WELCOME"), JStr("VIRTUNOVO")>>),
            JObj(<<"sponsorName", "ctaUrl">>,
                 <<JStr("VirtuTech"), JStr("https://google.com")>>) >>)

\* new Date().toISOString(): one instant.
Now == "2025-01-01T00:00:00.000Z"

\* ------------------------------------------------- logEvent and logAdmin

\* logs.push(entry); if (logs.length > 200) logs.pop(): the newest entry is
\* dropped instead of the oldest.
pushCapped_Pop(logs, entry) ==
    LET pushed == Append(logs, entry)
    IN  IF Len(pushed) > ANALYTICS_CAP THEN SubSeq(pushed, 1, Len(pushed) - 1) ELSE pushed

\* logs.push(entry); if (logs.length > 200) logs.shift();
pushCapped(logs, entry) ==
    LET pushed == Append(logs, entry)
    IN  IF Len(pushed) > ANALYTICS_CAP THEN Tail(pushed) ELSE pushed

\* logs.unshift(entry); if (logs.length > 500) logs.shift(): the entry just
\* added is dropped instead of the oldest.
unshiftCapped_Shift(logs, entry) ==
    LET unshifted == <<entry>> \o logs
    IN  IF Len(unshifted) > ADMIN_LOGS_CAP THEN Tail(unshifted) ELSE unshifted

\* logs.unshift(entry); if (logs.length > 500) logs.pop();
unshiftCapped(logs, entry) ==
    LET unshifted == <<entry>> \o logs
    IN  IF Len(unshifted) > ADMIN_LOGS_CAP
        THEN SubSeq(unshifted, 1, Len(unshifted) - 1)
        ELSE unshifted

\* const entry = { type, timestamp: new Date().toISOString(), ...payload }
eventEntry(type, payload) ==
    Spread(JObj(<<"type", "timestamp">>, <<JStr(type), JStr(Now)>>), payload)

\* const entry = { ts, actor: 'Admin', action, payload: payload || {} }
adminEntry(action, payload) ==
    JObj(<<"ts", "actor", "action", "payload">>,
         <<JStr(Now), JStr("Admin"), JStr(action), payload>>)

\* logEvent(type, payload) of useAnalytics.  Storage has room in the scene
\* specifications.
logEvent(st, type, payload) ==
    With(loadData(st, KEYS_ANALYTICS, EmptyArr).ret, LAMBDA loaded :
      LET entry == eventEntry(type, payload)
          logs == pushCapped(loaded.vs, entry)
      IN  With(saveData(st, KEYS_ANALYTICS, JArr(logs), FALSE).store, LAMBDA st1 :
            IF Truthy(Get(payload, "campaignId")) \/ Truthy(Get(payload, "sponsorName"))
            THEN LET campLogs == loadData(st1, KEYS_EVENTS_LOG, EmptyArr).ret
                 IN  saveData(st1, KEYS_EVENTS_LOG, JArr(Append(campLogs.vs, entry)),
                              FALSE).store
            ELSE st1))

\* logAdmin(action, payload): the flags are read from the store, not from
\* the component state.
logAdmin(st, action, payload) ==
    With(loadData(st, MASTER_FLAGS_KEY, DEFAULT_MASTER_FLAGS).ret, LAMBDA flags :
      IF ~Truthy(Get(flags, "enableAuditLog")) THEN st
      ELSE With(loadData(st, ADMIN_LOGS_KEY, EmptyArr).ret, LAMBDA loaded :
             LET entry == adminEntry(action, payload)
                 logs == unshiftCapped(loaded.vs, entry)
             IN  saveData(st, ADMIN_LOGS_KEY, JArr(logs), FALSE).store))

\* The stored analytics log and admin log, as loadData reads them.
analyticsLog(st) == loadData(st, KEYS_ANALYTICS, EmptyArr).ret.vs
adminLogs(st) == loadData(st, ADMIN_LOGS_KEY, EmptyArr).ret.vs

\* ------------------------------------------------------------ login logic

\* users.find(u => u.email === email && u.password === password)
RECURSIVE findUser(_, _, _, _)
findUser(users, email, password, i) ==
    IF i > Len(users) THEN JUndefined
    ELSE IF Get(users[i], "email") = JStr(email) /\ Get(users[i], "password") = JStr(password)
    THEN users[i]
    ELSE findUser(users, email, password, i + 1)

\* handleLoginAttempt(email, password)
handleLoginAttempt(st, email, password) ==
    With(<<loadData(st, ADMIN_CONFIG_KEY, DEFAULT_ADMIN_CONFIG).ret,
           loadData(st, USERS_DB_KEY, EmptyArr).ret>>, LAMBDA c :
      LET admin == c[1]
          users == c[2]
      IN  IF JStr(email) = Get(admin, "email") /\ JStr(password) = Get(admin, "password")
          THEN [status |-> "2FA_REQUIRED", user |-> JUndefined, role |-> ""]
          ELSE With(findUser(users.vs, email, password, 1), LAMBDA user :
                 IF ~Truthy(user)
                 THEN [status |-> "ERROR", user |-> JUndefined, role |-> ""]
                 ELSE IF Truthy(Get(user, "blocked"))
                 THEN [status |-> "ERROR", user |-> JUndefined, role |-> ""]
                 ELSE [status |-> "SUCCESS", user |-> user,
                       role |-> IF Truthy(Get(user, "role")) THEN Get(user, "role").s
                                ELSE ROLE_VISITOR]))

\* ------------------------------------------------ what the store starts as

\* A user record as registerUser writes it for the sign-up form's data.
RegisteredUser(email, name, org, role, accountType) ==
    JObj(<<"email", "password", "name", "org", "industry", "role", "accountType",
           "verified", "blocked", "joined">>,
         <<JStr(email), JStr("pw"), JStr(name), JStr(org), JStr(""), JStr(role),
           JStr(accountType), JBool(TRUE), JBool(FALSE), JStr(Now)>>)

\* Registered through the INDIVIDUAL tab and through the ORG tab: the form
\* passes accountType tab.toLowerCase(), 'individual' or 'org'.
IndividualUser == RegisteredUser("ind@x", "Ind", "", ROLE_VISITOR, ACCOUNT_INDIVIDUAL)
OrgTabUser == RegisteredUser("org@x", "Org", "Acme", ROLE_ORG_ADMIN, "org")

\* The record registerUser builds when it is handed accountType
\* 'organization': the one shape with an orgContext.
OrganizationUser ==
    SetKey(RegisteredUser("acme@x", "Acme", "Acme", ROLE_ORG_ADMIN, ACCOUNT_ORGANIZATION),
           "orgContext",
           JObj(<<"orgId", "orgName", "orgIndustry", "role">>,
                <<JStr("ORG-1"), JStr("Acme"), JStr(""), JStr(ROLE_ORG_ADMIN)>>))

StoredUsers == JArr(<<IndividualUser, OrgTabUser, OrganizationUser>>)

\* The user logged in by the 2FA step.
AdminUser == JObj(<<"name">>, <<JStr("Admin")>>)

\* An analytics log earlier visits left: an impression and a click on the
\* billboard, as sponsorDwell and handleSelect log them.
BillboardEvent(type) ==
    JObj(<<"type", "timestamp", "id", "sponsorName">>,
         <<JStr(type), JStr(Now), JStr("BILLBOARD_0"), JStr("VirtuTech")>>)
StoredAnalytics ==
    JArr(<<BillboardEvent("billboard_impression"), BillboardEvent("billboard_click")>>)

\* A flag record saved with the guest missions and the progress drawer off.
StoredGateFlags ==
    SetKey(SetKey(DEFAULT_MASTER_FLAGS, "missionsForGuest", JBool(FALSE)),
           "showCustomerProgressDrawer", JBool(FALSE))

\* A store holding only the registered users, then with the given texts.
EmptyStore == [k \in SceneKeys |-> Absent]
StoreWithUsers == [EmptyStore EXCEPT ![USERS_DB_KEY] = JSONstringify(StoredUsers)]

\* ------------------------------------------------------------- the effects

\* useEffect on [isAdmin, viewState, currentUser]: the session keys.
persistSession(st, admin, user, view) ==
    [st EXCEPT
       ![IS_ADMIN_KEY] = IF admin THEN <<"true">> ELSE Absent,
       ![USER_SESSION_KEY] = IF Truthy(user) THEN JSONstringify(user) ELSE Absent,
       ![AUTH_STATE_KEY] = IF view \in {"WORLD", "TRANSITION"} THEN <<"WORLD">> ELSE Absent]

\* useEffect on [brandModeEnabled]: localStorage.setItem(BRAND_MODE_KEY, flag).
persistBrandMode(st, enabled) ==
    [st EXCEPT ![BRAND_MODE_KEY] = IF enabled THEN <<"true">> ELSE <<"false">>]

\* The component state as one record.
Scene ==
    [viewState |-> viewState, isAdmin |-> isAdmin, currentUser |-> currentUser,
     authMode |-> authMode, showOnboarding |-> showOnboarding, showMaster |-> showMaster,
     masterFlags |-> masterFlags, sceneData |-> sceneData, selectedIds |-> selectedIds,
     brandModeEnabled |-> brandModeEnabled, showBrandPanel |-> showBrandPanel,
     showProgressDrawer |-> showProgressDrawer, showMissions |-> showMissions,
     showVault |-> showVault, userList |-> userList]

\* A handler returns: the component takes the state n the handler set and
\* the store st the handler left, then the effects run whose dependencies
\* changed.  The brand-mode effect also sets showBrandPanel.
Commit(n, st) ==
    /\ viewState' = n.viewState
    /\ isAdmin' = n.isAdmin
    /\ currentUser' = n.currentUser
    /\ authMode' = n.authMode
    /\ showOnboarding' = n.showOnboarding
    /\ showMaster' = n.showMaster
    /\ masterFlags' = n.masterFlags
    /\ sceneData' = n.sceneData
    /\ selectedIds' = n.selectedIds
    /\ brandModeEnabled' = n.brandModeEnabled
    /\ showBrandPanel' = IF n.brandModeEnabled # brandModeEnabled
                         THEN n.brandModeEnabled ELSE n.showBrandPanel
    /\ showProgressDrawer' = n.showProgressDrawer
    /\ showMissions' = n.showMissions
    /\ showVault' = n.showVault
    /\ userList' = n.userList
    /\ store' = persistBrandMode(
                    persistSession(st, n.isAdmin, n.currentUser, n.viewState),
                    n.brandModeEnabled)
    /\ UNCHANGED <<lastOp, mounted, migWrites, migThrew, extVars>>

\* The first render and the mount effects on a store st0, where the writes
\* to the keys of full fail for lack of quota: the useState initialisers,
\* then migrateLocalStorage, the brand-mode effect, the session effect and
\* logEvent('session_start').  The result is the component state, the store
\* and what the migration did.
MountResult(st0, full) ==
    With(migrateLocalStorage(st0, full), LAMBDA m :
      LET raw == getItem(st0, USER_SESSION_KEY)
          \* JSON.parse(null) is null
          session == IF raw = Absent THEN [ok |-> TRUE, v |-> JNull] ELSE JSONparse(raw)
          flags0 == loadData(st0, MASTER_FLAGS_KEY, DEFAULT_MASTER_FLAGS).ret
          view0 == IF getItem(st0, AUTH_STATE_KEY) \notin {Absent, EmptyText}
                   THEN "TRANSITION" ELSE "LANDING"
          admin0 == getItem(st0, IS_ADMIN_KEY) = <<"true">>
          user0 == IF session.ok THEN session.v ELSE JNull
          brand0 == getItem(st0, BRAND_MODE_KEY) = <<"true">>
      IN  [scene |->
             [viewState |-> view0, isAdmin |-> admin0, currentUser |-> user0,
              authMode |-> "CLOSED", showOnboarding |-> FALSE, showMaster |-> FALSE,
              masterFlags |-> IF m.setFlags THEN m.mergedFlags ELSE flags0,
              sceneData |-> loadData(st0, STORAGE_KEY, DEFAULT_SCENE_DATA).ret,
              selectedIds |-> <<>>, brandModeEnabled |-> brand0,
              showBrandPanel |-> brand0, showProgressDrawer |-> FALSE,
              showMissions |-> FALSE, showVault |-> FALSE,
        userList |-> JUndefined],
           store |-> logEvent(
                       persistSession(persistBrandMode(m.store, brand0),
                                      admin0, user0, view0),
                       "session_start", JObj(<<"sessionId">>, <<JStr("sess_1")>>)),
           writes |-> m.writes,
           threw |-> m.threw])

\* The component state is n.
SceneIs(n) ==
    /\ viewState = n.viewState
    /\ isAdmin = n.isAdmin
    /\ currentUser = n.currentUser
    /\ authMode = n.authMode
    /\ showOnboarding = n.showOnboarding
    /\ showMaster = n.showMaster
    /\ masterFlags = n.masterFlags
    /\ sceneData = n.sceneData
    /\ selectedIds = n.selectedIds
    /\ brandModeEnabled = n.brandModeEnabled
    /\ showBrandPanel = n.showBrandPanel
    /\ showProgressDrawer = n.showProgressDrawer
    /\ showMissions = n.showMissions
    /\ showVault = n.showVault
    /\ userList = n.userList

\* The page has just been loaded on store st0, where the writes to the keys
\* of full fail for lack of quota.
MountWith(st0, full) ==
    \E r \in {MountResult(st0, full)} :
      /\ SceneIs(r.scene)
      /\ store = r.store
      /\ lastOp = NoOp
      /\ mounted = TRUE
      /\ migWrites = r.writes
      /\ migThrew = r.threw
      /\ Quiet

\* The page has just been loaded on store st0, with room for every write.
Mount(st0) == MountWith(st0, {})


\* ---------------------------------------------------------- what is shown

Flag(name) == Truthy(Get(masterFlags, name))

InWorld == viewState \in {"WORLD", "TRANSITION"}

\* A full-screen layer lies over the landing page, the world buttons and the
\* panels: the auth modal and the modal backdrop (z-index 5000), the
\* onboarding overlay (9000) or the master control panel (9999).
Overlay ==
    \/ authMode # "CLOSED" \/ showOnboarding \/ showMaster \/ showMissions \/ showVault
    \/ userList # JUndefined

\* LandingOverlay: canSeeBrandMode and the "For Brands" toggle.
canSeeBrandMode ==
    isAdmin \/ Get(currentUser, "accountType") = JStr(ACCOUNT_ORGANIZATION)
LandingBrandToggleShown ==
    viewState = "LANDING" /\ Flag("enableBrandMode") /\ canSeeBrandMode

\* The in-world "Brand Mode" button.
BrandModeButtonShown == InWorld /\ Flag("enableBrandMode")

\* {masterFlags.enableBrandMode && showBrandPanel && <BrandPreviewPanel .../>}
BrandPanelShown == Flag("enableBrandMode") /\ showBrandPanel

\* Array.from(selectedIds).pop()
selectedId ==
    IF selectedIds = <<>> THEN JUndefined ELSE JStr(selectedIds[Len(selectedIds)])

\* ((clicks / impressions) * 100).toFixed(2), in hundredths of a percent.
toFixed2(clicks, impressions) ==
    (20000 * clicks + impressions) \div (2 * impressions)

NoMetrics == [impressions |-> -1, clicks |-> -1, ctr |-> -1, dwell |-> ""]

\* BrandPreviewPanel(props) on store st: what it computes and which of its
\* blocks it renders.  estReach: the inspector prints "Est. Reach ~N / day".
BrandPreviewPanel(st, props) ==
    LET analytics == loadData(st, KEYS_ANALYTICS, EmptyArr).ret.vs
        selectedItem == IF Truthy(props.selectedId)
                        THEN Get(props.sceneData, props.selectedId.s)
                        ELSE JNull
        brand == Get(selectedItem, "brand")
        canSeeMetrics ==
            \/ props.isAdmin
            \/ /\ Truthy(selectedItem)
               /\ Truthy(brand)
               /\ Get(brand, "orgId") = Get(Get(props.currentUser, "orgContext"), "orgId")
        count(type) ==
            Cardinality({i \in 1..Len(analytics) : Get(analytics[i], "type") = JStr(type)})
        impressions == IF count("billboard_impression") # 0
                       THEN count("billboard_impression") ELSE 1250
        clicks == IF count("billboard_click") # 0 THEN count("billboard_click") ELSE 85
    IN  [canSeeMetrics |-> canSeeMetrics,
         metrics |-> IF canSeeMetrics
                     THEN [impressions |-> impressions, clicks |-> clicks,
                           ctr |-> toFixed2(clicks, impressions), dwell |-> "4.2s"]
                     ELSE NoMetrics,
         kpiTiles |-> canSeeMetrics,
         confidential |-> ~canSeeMetrics,
         inspected |-> Truthy(selectedItem),
         estReach |-> Truthy(selectedItem),
         adminButtons |-> Truthy(selectedItem) /\ props.isAdmin]

\* The props SceneContent hands to BrandPreviewPanel: selectedId, sceneData
\* and isAdmin.  It hands over no currentUser, which is undefined inside.
BrandPanelProps ==
    [selectedId |-> selectedId, sceneData |-> sceneData, isAdmin |-> isAdmin,
     currentUser |-> JUndefined]

BrandPanel == BrandPreviewPanel(store, BrandPanelProps)

\* The ProgressDrawer (slid in when show is set) and the opener in the HUD.
ProgressDrawerRendered == ~isAdmin /\ Flag("showCustomerProgressDrawer")
ProgressDrawerShown == ProgressDrawerRendered /\ showProgressDrawer
ProgressOpenerShown == InWorld /\ ~isAdmin /\ Flag("showCustomerProgressDrawer")

\* The Missions and Vault buttons of the world view and their modals.
MissionsButtonShown == InWorld
VaultButtonShown == InWorld
MissionsModalShown == showMissions
VaultModalShown == showVault

\* ------------------------------------------------ handlers: auth and views

\* LandingOverlay onLogin: setShowAuth(true)
OpenAuth ==
    /\ viewState = "LANDING" /\ ~Overlay
    /\ ~Truthy(currentUser) /\ ~isAdmin
    /\ Commit([Scene EXCEPT !.authMode = "LOGIN"], store)

\* onLoginSuccess(u, r)
onLoginSuccess(u, r) ==
    IF r = ROLE_ADMIN
    THEN [Scene EXCEPT !.authMode = "CLOSED", !.currentUser = u, !.isAdmin = TRUE]
    ELSE [Scene EXCEPT !.authMode = "CLOSED", !.currentUser = u, !.showOnboarding = TRUE]

\* What is typed into the login form.
Credentials ==
    { <<"admin@virtunovo.com", "password">>, <<"ind@x", "pw">>, <<"org@x", "pw">>,
      <<"acme@x", "pw">>, <<"ind@x", "wrong">> }

\* UnifiedAuthModal handleLogin
HandleLogin(email, password) ==
    /\ authMode = "LOGIN"
    /\ \E res \in {handleLoginAttempt(store, email, password)} :
         Commit(IF res.status = "2FA_REQUIRED" THEN [Scene EXCEPT !.authMode = "2FA"]
                ELSE IF res.status = "SUCCESS" THEN onLoginSuccess(res.user, res.role)
                ELSE Scene,
                store)

\* UnifiedAuthModal verify2FA
Verify2FA(twoFACode) ==
    /\ authMode = "2FA"
    /\ LET admin == loadData(store, ADMIN_CONFIG_KEY, DEFAULT_ADMIN_CONFIG).ret
       IN  Commit(IF JStr(twoFACode) = Get(admin, "secretCode")
                  THEN onLoginSuccess(AdminUser, ROLE_ADMIN)
                  ELSE Scene,
                  store)

\* UnifiedAuthModal onClose
CloseAuth ==
    /\ authMode # "CLOSED"
    /\ Commit([Scene EXCEPT !.authMode = "CLOSED"], store)

\* LandingOverlay onLogout
Logout ==
    /\ viewState = "LANDING" /\ ~Overlay
    /\ Truthy(currentUser) \/ isAdmin
    /\ Commit([Scene EXCEPT !.isAdmin = FALSE, !.currentUser = JNull],
              [store EXCEPT ![USER_SESSION_KEY] = Absent])

\* enterWorld
EnterWorld ==
    /\ viewState = "LANDING" /\ ~Overlay
    /\ Len(analyticsLog(store)) < MaxEvents
    /\ IF Flag("maintenanceMode") /\ ~isAdmin
       THEN Commit(Scene, store)
       ELSE Commit([Scene EXCEPT !.showOnboarding = TRUE],
                   logEvent(store, "enter_world", EmptyObj))

\* OnboardingOverlay onComplete, fired by its timer.  The guided tour it may
\* start is not part of this model.
OnboardingComplete ==
    /\ showOnboarding
    /\ Commit([Scene EXCEPT !.showOnboarding = FALSE, !.viewState = "TRANSITION"], store)

\* The Home button
Home ==
    /\ InWorld /\ ~Overlay
    /\ Commit([Scene EXCEPT !.viewState = "LANDING"], store)

\* The Visitor View button
VisitorView ==
    /\ InWorld /\ ~Overlay /\ isAdmin
    /\ Commit([Scene EXCEPT !.isAdmin = FALSE], store)

\* The Admin View button
AdminView ==
    /\ InWorld /\ ~Overlay
    /\ ~isAdmin /\ Truthy(currentUser) /\ Get(currentUser, "name") = JStr("Admin")
    /\ Commit([Scene EXCEPT !.isAdmin = TRUE], store)

\* ----------------------------------------------------- handlers: brand mode

\* The landing "For Brands" toggle: setBrandMode(p => !p)
ToggleBrandMode ==
    /\ LandingBrandToggleShown /\ ~Overlay
    /\ Commit([Scene EXCEPT !.brandModeEnabled = ~@], store)

\* The in-world Brand Mode button: setShowBrandPanel(p => !p)
ToggleBrandPanel ==
    /\ BrandModeButtonShown /\ ~Overlay
    /\ Commit([Scene EXCEPT !.showBrandPanel = ~@], store)

\* BrandPreviewPanel onClose
CloseBrandPanel ==
    /\ BrandPanelShown /\ ~Overlay
    /\ Commit([Scene EXCEPT !.showBrandPanel = FALSE], store)

\* The objects of the scene that are clicked: the hero tower and a building.
\* (A visitor's click on a billboard, with its click logging and mission
\* progress, is not among the clicks drawn.)
AssetIds == {"HERO", "R0-L-200"}

\* id.startsWith("BILLBOARD"): the four screens.  No id of the model starts
\* with WALL.
isBillboard(id) == id \in {"BILLBOARD_0", "BILLBOARD_1", "BILLBOARD_2", "BILLBOARD_3"}

\* Set operations that keep the insertion order.
SetHas(set, id) == \E i \in 1..Len(set) : set[i] = id
SetAdd(set, id) == IF SetHas(set, id) THEN set ELSE Append(set, id)
SetDelete(set, id) == SelectSeq(set, LAMBDA x : x # id)

\* handleSelect(id, e)
handleSelect(id, e) ==
    IF brandModeEnabled /\ showBrandPanel
    THEN (IF e.shiftKey THEN SetAdd(selectedIds, id) ELSE <<id>>)
    ELSE IF ~isAdmin
    THEN selectedIds
    ELSE LET isMulti == e.shiftKey \/ e.ctrlKey
             newSet == IF isMulti THEN selectedIds ELSE <<>>
         IN  IF SetHas(newSet, id) THEN SetDelete(newSet, id) ELSE SetAdd(newSet, id)

HandleSelect(id, e) ==
    /\ InWorld /\ ~Overlay
    /\ ~isBillboard(id)
    /\ Commit([Scene EXCEPT !.selectedIds = handleSelect(id, e)], store)

\* handleUpdate(field, value): the field is set on every selected object.
RECURSIVE handleUpdate(_, _, _, _)
handleUpdate(prev, field, value, i) ==
    IF i > Len(selectedIds) THEN prev
    ELSE LET id == selectedIds[i]
             existing == IF Truthy(Get(prev, id)) THEN Get(prev, id) ELSE EmptyObj
         IN  With(SetKey(prev, id, SetKey(Spread(EmptyObj, existing), field, value)),
                  LAMBDA next : handleUpdate(next, field, value, i + 1))

\* The Brand Assignment inputs of UnifiedControlPanel, shown to the admin
\* when the object selected last is neither a wall nor a billboard:
\* onUpdate('brand', {...(data.brand || {}), [field]: text})
UpdateBrand(field, text) ==
    /\ InWorld /\ ~Overlay /\ isAdmin
    /\ Truthy(selectedId)
    /\ ~isBillboard(selectedId.s)
    /\ LET item == Get(sceneData, selectedId.s)
           data == IF Truthy(item) THEN item ELSE EmptyObj
           brand == IF Truthy(Get(data, "brand")) THEN Get(data, "brand") ELSE EmptyObj
           value == SetKey(Spread(EmptyObj, brand), field, JStr(text))
       IN  Commit([Scene EXCEPT !.sceneData = handleUpdate(sceneData, "brand", value, 1)],
                  store)

\* onClose of UnifiedControlPanel (admin) and of BuildingInfoCard (a visitor
\* with one object selected): setSelectedIds(new Set())
ClearSelection ==
    /\ InWorld /\ ~Overlay
    /\ (isAdmin /\ selectedIds # <<>>) \/ (~isAdmin /\ Len(selectedIds) = 1)
    /\ Commit([Scene EXCEPT !.selectedIds = <<>>], store)

\* ---------------------------------------------------------- handlers: gates

\* The Master button of UnifiedControlPanel
OpenMaster ==
    /\ InWorld /\ ~Overlay /\ isAdmin
    /\ Commit([Scene EXCEPT !.showMaster = TRUE], store)

CloseMaster ==
    /\ showMaster
    /\ Commit([Scene EXCEPT !.showMaster = FALSE], store)

\* The flags switched in the gate specification.
GateFlags == {"showCustomerProgressDrawer", "missionsForGuest"}

\* MasterControlPanel: onToggle(key); logAdmin("toggle_master_flag", ...)
ToggleFlag(key) ==
    /\ showMaster
    /\ key \in KeySet(masterFlags)
    /\ Len(adminLogs(store)) < MaxAdminLogs
    /\ LET value == JBool(~Flag(key))
       IN  Commit([Scene EXCEPT !.masterFlags = SetKey(masterFlags, key, value)],
                  logAdmin(store, "toggle_master_flag",
                           JObj(<<"key", "value">>, <<JStr(key), value>>)))

OpenProgressDrawer ==
    /\ ProgressOpenerShown /\ ~Overlay
    /\ Commit([Scene EXCEPT !.showProgressDrawer = TRUE], store)

CloseProgressDrawer ==
    /\ ProgressDrawerShown /\ ~Overlay
    /\ Commit([Scene EXCEPT !.showProgressDrawer = FALSE], store)

OpenMissions ==
    /\ MissionsButtonShown /\ ~Overlay
    /\ Commit([Scene EXCEPT !.showMissions = TRUE], store)

CloseMissions ==
    /\ MissionsModalShown
    /\ Commit([Scene EXCEPT !.showMissions = FALSE], store)

OpenVault ==
    /\ VaultButtonShown /\ ~Overlay
    /\ Commit([Scene EXCEPT !.showVault = TRUE], store)

CloseVault ==
    /\ VaultModalShown
    /\ Commit([Scene EXCEPT !.showVault = FALSE], store)

\* --------------------------------------------------------- specifications

NextAuth ==
    \/ OpenAuth
    \/ \E c \in Credentials : HandleLogin(c[1], c[2])
    \/ \E code \in {"123456", "000000"} : Verify2FA(code)
    \/ CloseAuth
    \/ Logout
    \/ EnterWorld
    \/ OnboardingComplete
    \/ Home
    \/ VisitorView
    \/ AdminView

\* Brand mode: a first visit, or a return to a stored analytics log.
InitBrand ==
    \E a \in {Absent, JSONstringify(StoredAnalytics)} :
        Mount([StoreWithUsers EXCEPT ![KEYS_ANALYTICS] = a])

NextBrand ==
    \/ NextAuth
    \/ ToggleBrandMode
    \/ ToggleBrandPanel
    \/ CloseBrandPanel
    \/ \E id \in AssetIds, e \in [shiftKey : BOOLEAN, ctrlKey : BOOLEAN] : HandleSelect(id, e)
    \/ \E f \in {<<"orgName", "Acme">>, <<"orgId", "ORG-1">>} : UpdateBrand(f[1], f[2])
    \/ ClearSelection

SpecBrand == InitBrand /\ [][NextBrand]_vars

\* The gates: a first visit, or a return to flags saved with the gates off.
InitGates ==
    \E f \in {Absent, JSONstringify(StoredGateFlags)} :
        Mount([StoreWithUsers EXCEPT ![MASTER_FLAGS_KEY] = f])

NextGates ==
    \/ NextAuth
    \/ OpenMaster
    \/ CloseMaster
    \/ \E key \in GateFlags : ToggleFlag(key)
    \/ OpenProgressDrawer
    \/ CloseProgressDrawer
    \/ OpenMissions
    \/ CloseMissions
    \/ OpenVault
    \/ CloseVault

SpecGates == InitGates /\ [][NextGates]_vars

\* ------------------------------------------------------ the control panel

\* UnifiedControlPanel: rendered in the world view, null unless isAdmin.  It
\* reads its flags from the store on every render:
\* const flags = loadData(MASTER_FLAGS_KEY, DEFAULT_MASTER_FLAGS)
ControlPanelShown == InWorld /\ isAdmin
ControlPanelFlags == loadData(store, MASTER_FLAGS_KEY, DEFAULT_MASTER_FLAGS).ret
LeadsButtonShown ==
    ControlPanelShown /\ Truthy(Get(ControlPanelFlags, "enableLeadsPanel"))
FlightsButtonShown ==
    ControlPanelShown /\ Truthy(Get(ControlPanelFlags, "enableFlightPlan"))

\* ------------------------------------------- handlers: save, reset, reload

\* handleSave with a rollback: the stored scene is put back when the write of
\* the flags fails.
handleSave_Rollback(st, full) ==
    With(saveData(st, STORAGE_KEY, sceneData, STORAGE_KEY \in full).store, LAMBDA st1 :
      IF MASTER_FLAGS_KEY \in full THEN logAdmin(st, "save_scene", EmptyObj)
      ELSE logAdmin(saveData(st1, MASTER_FLAGS_KEY, masterFlags, FALSE).store,
                    "save_scene", EmptyObj))

\* handleSave: two independent writes, then the audit entry.  full is the
\* set of keys whose write fails for lack of quota.
handleSave(st, full) ==
    With(saveData(st, STORAGE_KEY, sceneData, STORAGE_KEY \in full).store, LAMBDA st1 :
    With(saveData(st1, MASTER_FLAGS_KEY, masterFlags, MASTER_FLAGS_KEY \in full).store,
         LAMBDA st2 : logAdmin(st2, "save_scene", EmptyObj)))

\* The Save button of UnifiedControlPanel
HandleSave(full) ==
    /\ InWorld /\ ~Overlay /\ isAdmin
    /\ Len(adminLogs(store)) < MaxAdminLogs
    /\ Commit(Scene, handleSave(store, full))

\* The Reset button of UnifiedControlPanel, without shift: handleReset
HandleReset ==
    /\ InWorld /\ ~Overlay /\ isAdmin
    /\ Commit([Scene EXCEPT !.sceneData = loadData(store, STORAGE_KEY, DEFAULT_SCENE_DATA).ret],
              store)

\* The component state, the store and the migration record become those of r.
Become(r, isMounted) ==
    /\ viewState' = r.scene.viewState
    /\ isAdmin' = r.scene.isAdmin
    /\ currentUser' = r.scene.currentUser
    /\ authMode' = r.scene.authMode
    /\ showOnboarding' = r.scene.showOnboarding
    /\ showMaster' = r.scene.showMaster
    /\ masterFlags' = r.scene.masterFlags
    /\ sceneData' = r.scene.sceneData
    /\ selectedIds' = r.scene.selectedIds
    /\ brandModeEnabled' = r.scene.brandModeEnabled
    /\ showBrandPanel' = r.scene.showBrandPanel
    /\ showProgressDrawer' = r.scene.showProgressDrawer
    /\ showMissions' = r.scene.showMissions
    /\ showVault' = r.scene.showVault
    /\ userList' = r.scene.userList
    /\ store' = r.store
    /\ mounted' = isMounted
    /\ migWrites' = r.writes
    /\ migThrew' = r.threw
    /\ UNCHANGED extVars
    /\ UNCHANGED lastOp

\* SceneContent is not rendered, on store st: the state its useState calls
\* will start from.
Unmounted(st) ==
    [scene |->
       [viewState |-> "LANDING", isAdmin |-> FALSE, currentUser |-> JNull,
        authMode |-> "CLOSED", showOnboarding |-> FALSE, showMaster |-> FALSE,
        masterFlags |-> initialMasterFlags(st), sceneData |-> JNull,
        selectedIds |-> <<>>, brandModeEnabled |-> FALSE, showBrandPanel |-> FALSE,
        showProgressDrawer |-> FALSE, showMissions |-> FALSE, showVault |-> FALSE,
        userList |-> JUndefined],
     store |-> st, writes |-> {}, threw |-> FALSE]

\* The page is loaded: the first render and the mount effects.
MountPage(full) ==
    /\ ~mounted
    /\ Len(analyticsLog(store)) < MaxEvents
    /\ Become(MountResult(store, full), TRUE)

\* The page is left (closed or about to be loaded again): the beforeunload
\* handler logs session_end.  With hard set it is the control panel's
\* Shift+Reset, which removes the stored scene first.
Unload(hard) ==
    /\ mounted
    /\ hard => (InWorld /\ ~Overlay /\ isAdmin)
    /\ Len(analyticsLog(store)) < MaxEvents
    /\ LET st1 == IF hard THEN [store EXCEPT ![STORAGE_KEY] = Absent] ELSE store
       IN  Become(Unmounted(logEvent(st1, "session_end",
                                     JObj(<<"sessionId">>, <<JStr("sess_1")>>))),
                  FALSE)

\* The flags switched in the flag specification.
AdminFlags == {"enableAuditLog", "enableLeadsPanel"}

\* Flag texts found at page load: none, an unparsable text and an earlier
\* version's record.
FlagTextsAtLoad ==
    { Absent, <<"hello">>,
      JSONstringify(SetKey(OldVersionFlags, "enableGuidedTour", JBool(FALSE))) }

\* Before the first page load of a visit.
InitFlags ==
    \E f \in FlagTextsAtLoad :
      /\ store = [StoreWithUsers EXCEPT ![MASTER_FLAGS_KEY] = f]
      /\ SceneIs(Unmounted(store).scene)
      /\ lastOp = NoOp
      /\ mounted = FALSE
      /\ migWrites = {}
      /\ migThrew = FALSE
      /\ Quiet

\* The admin logs in and moves between the landing page and the world.
AdminSession ==
    \/ OpenAuth
    \/ HandleLogin("admin@virtunovo.com", "password")
    \/ Verify2FA("123456")
    \/ EnterWorld
    \/ OnboardingComplete
    \/ Home

NextFlags ==
    \/ \E full \in {{}, {MASTER_FLAGS_KEY}} : MountPage(full)
    \/ \E hard \in BOOLEAN : Unload(hard)
    \/ mounted /\ AdminSession
    \/ mounted /\ OpenMaster
    \/ mounted /\ CloseMaster
    \/ \E key \in AdminFlags : mounted /\ ToggleFlag(key)
    \/ \E full \in {{}, {MASTER_FLAGS_KEY}, {STORAGE_KEY}} : mounted /\ HandleSave(full)
    \/ mounted /\ HandleReset

SpecFlags == InitFlags /\ [][NextFlags]_vars

\* ------------------------------------------------------------------ save

\* The store an admin left who was in the world when the page was closed.
AdminInWorldStore ==
    [StoreWithUsers EXCEPT ![IS_ADMIN_KEY] = <<"true">>,
                           ![AUTH_STATE_KEY] = <<"WORLD">>,
                           ![USER_SESSION_KEY] = JSONstringify(AdminUser)]

InitSave == Mount(AdminInWorldStore)

\* Execution stops between the two writes of handleSave (the page is killed):
\* the first write is in the store, the page is gone.
SaveInterrupted ==
    /\ mounted
    /\ InWorld /\ ~Overlay /\ isAdmin
    /\ Become(Unmounted(saveData(store, STORAGE_KEY, sceneData, FALSE).store), FALSE)

NextSave ==
    \/ HandleSelect("HERO", [shiftKey |-> FALSE, ctrlKey |-> FALSE])
    \/ \E text \in {"ORG-1", "ORG-2"} : mounted /\ UpdateBrand("orgId", text)
    \/ mounted /\ OpenMaster
    \/ mounted /\ CloseMaster
    \/ mounted /\ ToggleFlag("enableLeadsPanel")
    \/ \E full \in SUBSET {STORAGE_KEY, MASTER_FLAGS_KEY} : mounted /\ HandleSave(full)
    \/ mounted /\ HandleReset
    \/ SaveInterrupted
    \/ MountPage({})

SpecSave == InitSave /\ [][NextSave]_vars

\* ------------------------------------------------- the logs at their caps
\* The two log specifications start from logs as long as the caps.  The
\* stored log is kept as the array the last call handed to saveData
\* (lastOp.ret), which is what loadData returns to the next call; the JSON
\* text of a log of hundreds of entries is not built.  Storage has room.

\* Calls of logEvent or logAdmin in a behaviour of the log specifications.
MaxCalls == 3

Earlier == "2024-12-31T00:00:00.000Z"

\* Entries of earlier visits, numbered from the oldest.
OldEvent(i) ==
    JObj(<<"type", "timestamp", "sessionId">>,
         <<JStr("session_start"), JStr(Earlier), JStr("sess_0")>>) @@ [n |-> i]
OldLog(len) == [i \in 1..len |-> OldEvent(i)]

\* Admin entries of earlier visits: the admin log holds the newest first, so
\* the entry at position i of a log of len entries is the (len - i + 1)-th.
OldAdminEntry(i) ==
    JObj(<<"ts", "actor", "action", "payload">>,
         <<JStr(Earlier), JStr("Admin"), JStr("save_scene"), EmptyObj>>) @@ [n |-> i]
OldAdminLog(len) == [i \in 1..len |-> OldAdminEntry(len - i + 1)]

\* The number of entries of this visit in a log.
CallsMade(logs, stamp) ==
    Cardinality({i \in 1..Len(logs) : Get(logs[i], stamp) = JStr(Now)})

LoggedOp(op, key, entry, before, after) ==
    [NoOp EXCEPT !.op = op, !.key = key, !.val = entry, !.def = JArr(before),
                 !.ret = JArr(after), !.wrote = before # after, !.calls = 1]

InitEventLog ==
    /\ \E len \in {0, ANALYTICS_CAP - 2, ANALYTICS_CAP - 1, ANALYTICS_CAP} :
         lastOp = LoggedOp("loadData", KEYS_ANALYTICS, JNull, OldLog(len), OldLog(len))
    /\ store = EmptyStore
    /\ mounted = FALSE
    /\ migWrites = {}
    /\ migThrew = FALSE
    /\ Quiet
    /\ masterFlags = DEFAULT_MASTER_FLAGS
    /\ NoScene

\* logEvent(type, payload) on the log the last call left.
LogEventCall(type, payload) ==
    /\ CallsMade(lastOp.ret.vs, "timestamp") < MaxCalls
    /\ lastOp' = LoggedOp("logEvent", KEYS_ANALYTICS, eventEntry(type, payload),
                          lastOp.ret.vs,
                          pushCapped(lastOp.ret.vs, eventEntry(type, payload)))
    /\ UNCHANGED <<store, migVars, extVars, masterFlags, uiVars>>

NextEventLog ==
    \E type \in {"enter_world", "session_end"},
       payload \in {EmptyObj, JObj(<<"sessionId">>, <<JStr("sess_1")>>)} :
        LogEventCall(type, payload)

SpecEventLog == InitEventLog /\ [][NextEventLog]_vars

InitAdminLog ==
    /\ \E len \in {0, ADMIN_LOGS_CAP - 2, ADMIN_LOGS_CAP - 1, ADMIN_LOGS_CAP} :
         lastOp = LoggedOp("loadData", ADMIN_LOGS_KEY, JNull, OldAdminLog(len),
                           OldAdminLog(len))
    /\ \E f \in {Absent,
                 JSONstringify(SetKey(DEFAULT_MASTER_FLAGS, "enableAuditLog", JBool(FALSE)))} :
         store = [EmptyStore EXCEPT ![MASTER_FLAGS_KEY] = f]
    /\ mounted = FALSE
    /\ migWrites = {}
    /\ migThrew = FALSE
    /\ Quiet
    /\ masterFlags = initialMasterFlags(store)
    /\ NoScene

\* logAdmin(action, payload) on the log the last call left, with the flags
\* read from the store.
LogAdminCall(action, payload) ==
    /\ CallsMade(lastOp.ret.vs, "ts") < MaxCalls
    /\ LET flags == loadData(store, MASTER_FLAGS_KEY, DEFAULT_MASTER_FLAGS).ret
       IN  lastOp' = LoggedOp("logAdmin", ADMIN_LOGS_KEY, adminEntry(action, payload),
                              lastOp.ret.vs,
                              IF ~Truthy(Get(flags, "enableAuditLog")) THEN lastOp.ret.vs
                              ELSE unshiftCapped(lastOp.ret.vs,
                                                 adminEntry(action, payload)))
    /\ UNCHANGED <<store, migVars, extVars, masterFlags, uiVars>>

NextAdminLog ==
    \E action \in {"save_scene", "export_data", "toggle_master_flag"},
       payload \in {EmptyObj, JObj(<<"key">>, <<JStr("enableAuditLog")>>)} :
        LogAdminCall(action, payload)

SpecAdminLog == InitAdminLog /\ [][NextAdminLog]_vars

\* ------------------------------------------------------------- the users

EVENT_ARRIVAL_KEY == "VIRTUNOVO_EVENT_ARRIVAL_LOG"
ACCOUNT_TYPE_KEY == "VIRTUNOVO_ACCOUNT_TYPE"
ORG_CONTEXT_KEY == "VIRTUNOVO_ORG_CONTEXT"
KEYS_POINTS == "VIRTUNOVO_POINTS"
KEYS_WEEKLY_POINTS == "VIRTUNOVO_WEEKLY_POINTS"
KEYS_LEADERBOARD == "VIRTUNOVO_LEADERBOARD"
KEYS_REF_INCOMING == "VIRTUNOVO_REF_INCOMING"
KEYS_REF_LEDGER == "VIRTUNOVO_REF_LEDGER"
KEYS_REF_REWARD_DATE == "VIRTUNOVO_REF_REWARD_DATE"
KEYS_GUEST_ID == "VIRTUNOVO_GUEST_ID"

\* The keys of the user specification: those of the scene and those the
\* registration and the points touch.
UserKeys ==
    SceneKeys \cup {EVENT_ARRIVAL_KEY, ACCOUNT_TYPE_KEY, ORG_CONTEXT_KEY, KEYS_POINTS,
                    KEYS_WEEKLY_POINTS, KEYS_LEADERBOARD, KEYS_REF_INCOMING,
                    KEYS_REF_LEDGER, KEYS_REF_REWARD_DATE, KEYS_GUEST_ID}

\* new Date().toISOString().split('T')[0]
Today == "2025-01-01"

\* users.findIndex(u => u.email === email), counted from 1; 0 for none.
RECURSIVE findIndexByEmail(_, _, _)
findIndexByEmail(users, email, i) ==
    IF i > Len(users) THEN 0
    ELSE IF Get(users[i], "email") = email THEN i
    ELSE findIndexByEmail(users, email, i + 1)

\* parseInt(localStorage.getItem(key) || '0') of a text setItem wrote from a
\* number.
storedInt(st, key) ==
    IF getItem(st, key) \in {Absent, EmptyText} THEN 0 ELSE JSONparse(getItem(st, key)).v.n

\* registerUser without the test for a stored user of the same email.
registerUser_NoCheck(st, data) ==
    LET users == loadData(st, USERS_DB_KEY, EmptyArr).ret
        newUser == SetKey(SetKey(SetKey(data, "verified", JBool(TRUE)),
                                 "blocked", JBool(FALSE)), "joined", JStr(Now))
    IN  [success |-> TRUE, threw |-> FALSE,
         store |-> saveData(st, USERS_DB_KEY, JArr(Append(users.vs, newUser)), FALSE).store]

\* registerUser(data).  users.find throws when the stored value is not an
\* array.  Storage has room.
registerUser(st, data) ==
    With(loadData(st, USERS_DB_KEY, EmptyArr).ret, LAMBDA users :
      IF users.t # "arr" THEN [success |-> FALSE, threw |-> TRUE, store |-> st]
      ELSE IF findIndexByEmail(users.vs, Get(data, "email"), 1) # 0
      THEN [success |-> FALSE, threw |-> FALSE, store |-> st]
      ELSE
        LET incomingRef == getItem(st, KEYS_REF_INCOMING)
            ledger == loadData(st, KEYS_REF_LEDGER, EmptyArr).ret
            st1 == IF /\ incomingRef \notin {Absent, EmptyText}
                      /\ getItem(st, KEYS_REF_REWARD_DATE) # <<Today>>
                      /\ \A i \in 1..Len(ledger.vs) : ledger.vs[i] # Get(data, "email")
                   THEN setItem(saveData(st, KEYS_REF_LEDGER,
                                         JArr(Append(ledger.vs, Get(data, "email"))),
                                         FALSE).store,
                                KEYS_REF_REWARD_DATE, <<Today>>, FALSE).store
                   ELSE st
            newUser == SetKey(SetKey(SetKey(SetKey(data, "verified", JBool(TRUE)),
                                            "blocked", JBool(FALSE)),
                                     "joined", JStr(Now)),
                              "role", IF Truthy(Get(data, "role")) THEN Get(data, "role")
                                      ELSE JStr(ROLE_VISITOR))
            isOrg == Get(data, "accountType") = JStr(ACCOUNT_ORGANIZATION)
            orgContext == JObj(<<"orgId", "orgName", "orgIndustry", "role">>,
                               <<JStr("ORG-1"), Get(data, "org"), Get(data, "industry"),
                                 JStr(ROLE_ORG_ADMIN)>>)
            st2 == IF isOrg
                   THEN setItem(st1, ORG_CONTEXT_KEY, JSONstringify(orgContext), FALSE).store
                   ELSE st1
            pushed == IF isOrg THEN SetKey(newUser, "orgContext", orgContext) ELSE newUser
        IN  [success |-> TRUE, threw |-> FALSE,
             store |-> saveData(st2, USERS_DB_KEY, JArr(Append(users.vs, pushed)),
                                FALSE).store])

\* addPoints(pts) of useMissions.  A session text that does not parse, or a
\* stored user list that is not an array, ends in the catch.
addPoints(st, pts) ==
    LET st1 == setItem(st, KEYS_POINTS,
                       JSONstringify(JNum(storedInt(st, KEYS_POINTS) + pts)), FALSE).store
        st2 == setItem(st1, KEYS_WEEKLY_POINTS,
                       JSONstringify(JNum(storedInt(st1, KEYS_WEEKLY_POINTS) + pts)),
                       FALSE).store
        raw == getItem(st2, USER_SESSION_KEY)
        session == IF raw = Absent THEN [ok |-> TRUE, v |-> JNull] ELSE JSONparse(raw)
        users == loadData(st2, USERS_DB_KEY, EmptyArr).ret
        idx == findIndexByEmail(users.vs, Get(session.v, "email"), 1)
        weekly(o) == IF Truthy(Get(o, "weeklyPoints")) THEN Get(o, "weeklyPoints").n ELSE 0
        guestId == IF getItem(st2, KEYS_GUEST_ID) \in {Absent, EmptyText} THEN "Guest"
                   ELSE getItem(st2, KEYS_GUEST_ID)[1]
        lb == loadData(st2, KEYS_LEADERBOARD, EmptyObj).ret
    IN  IF ~session.ok THEN st2
        ELSE IF Truthy(Get(session.v, "email"))
        THEN IF users.t # "arr" \/ idx = 0 THEN st2
             ELSE saveData(st2, USERS_DB_KEY,
                           JArr([users.vs EXCEPT ![idx] =
                                   SetKey(@, "weeklyPoints", JNum(weekly(@) + pts))]),
                           FALSE).store
        ELSE saveData(st2, KEYS_LEADERBOARD,
                      SetKey(lb, guestId,
                             JObj(<<"name", "weeklyPoints">>,
                                  <<JStr(guestId), JNum(weekly(Get(lb, guestId)) + pts)>>)),
                      FALSE).store

\* handleWarpToEvent(evt) for an active event: 5 points once per event and
\* day.
handleWarpToEvent(st, evtId) ==
    LET log == loadData(st, EVENT_ARRIVAL_KEY, EmptyObj).ret
        key == evtId
    IN  IF Truthy(Get(log, key)) THEN st
        ELSE saveData(addPoints(st, 5), EVENT_ARRIVAL_KEY, SetKey(log, key, JBool(TRUE)),
                      FALSE).store

\* The key of the arrival log for the active event: its id and the day.
EventDayKey == "EVT_1_2025-01-01"

WarpToEvent ==
    /\ InWorld /\ ~Overlay
    /\ Commit(Scene, handleWarpToEvent(store, EventDayKey))

\* UnifiedAuthModal: "Create Account" and "Back to Login"
ShowSignup ==
    /\ authMode = "LOGIN"
    /\ Commit([Scene EXCEPT !.authMode = "SIGNUP"], store)

ShowLogin ==
    /\ authMode = "SIGNUP"
    /\ Commit([Scene EXCEPT !.authMode = "LOGIN"], store)

\* The data handleSignup hands to registerUser from the form.
SignupData(email, tab) ==
    JObj(<<"email", "password", "name", "org", "industry", "role", "accountType">>,
         <<JStr(email), JStr("pw"), JStr("Name"),
           JStr(IF tab = "ORG" THEN "Acme" ELSE ""), JStr(""),
           JStr(IF tab = "ORG" THEN ROLE_ORG_ADMIN ELSE ROLE_VISITOR),
           JStr(IF tab = "ORG" THEN "org" ELSE ACCOUNT_INDIVIDUAL)>>)

\* UnifiedAuthModal handleSignup with the three fields filled in, data being
\* what it hands to registerUser.  The outcome of registerUser is kept in
\* lastOp.
HandleSignupWith(data, tab) ==
    /\ authMode = "SIGNUP"
    /\ \E res \in {registerUser(store, data)} :
         /\ store' = IF res.success
                     THEN setItem(res.store, ACCOUNT_TYPE_KEY,
                                  <<IF tab = "ORG" THEN "org" ELSE ACCOUNT_INDIVIDUAL>>,
                                  FALSE).store
                     ELSE res.store
         /\ authMode' = IF res.success THEN "LOGIN" ELSE authMode
         /\ lastOp' = [NoOp EXCEPT !.op = "registerUser", !.key = USERS_DB_KEY,
                                   !.val = data,
                                   !.ret = JBool(res.success), !.threw = res.threw,
                                   !.wrote = res.success, !.calls = 1]
    /\ UNCHANGED <<migVars, extVars, masterFlags, viewState, isAdmin, currentUser, showOnboarding,
                   showMaster, sceneData, selectedIds, brandModeEnabled, showBrandPanel,
                   showProgressDrawer, showMissions, showVault, userList>>

HandleSignup(email, tab) == HandleSignupWith(SignupData(email, tab), tab)

\* The Users entry of the admin sidebar: UserManagementModal is rendered and
\* its state starts from the stored users.
OpenUsers ==
    /\ InWorld /\ ~Overlay /\ isAdmin
    /\ Commit([Scene EXCEPT !.userList = loadData(store, USERS_DB_KEY, EmptyArr).ret],
              store)

CloseUsers ==
    /\ userList # JUndefined
    /\ Commit([Scene EXCEPT !.userList = JUndefined], store)

\* The emails of the rows the modal shows.
RowEmails ==
    IF userList.t = "arr"
    THEN {Get(userList.vs[i], "email") : i \in 1..Len(userList.vs)}
    ELSE {}

\* userList.map(x => x.email === email ? { ...x, [key]: F(x) } : x)
MapUser(email, key, F(_)) ==
    JArr([i \in 1..Len(userList.vs) |->
            IF Get(userList.vs[i], "email") = email
            THEN SetKey(userList.vs[i], key, F(userList.vs[i]))
            ELSE userList.vs[i]])

\* saveUsers(newUsers): setUserList(newUsers); saveData(USERS_DB_KEY, newUsers)
saveUsers(st, newUsers) == saveData(st, USERS_DB_KEY, newUsers, FALSE).store

\* The role select of a row: onChange fires when another role than the one
\* shown (u.role || ROLES.VISITOR) is picked.
ChangeRole(email, newRole) ==
    /\ email \in RowEmails
    /\ \E i \in 1..Len(userList.vs) :
         /\ Get(userList.vs[i], "email") = email
         /\ JStr(newRole) # (IF Truthy(Get(userList.vs[i], "role"))
                             THEN Get(userList.vs[i], "role") ELSE JStr(ROLE_VISITOR))
    /\ Len(adminLogs(store)) < MaxAdminLogs
    /\ \E updated \in {MapUser(email, "role", LAMBDA x : JStr(newRole))} :
         Commit([Scene EXCEPT !.userList = updated],
                logAdmin(saveUsers(store, updated), "user_role_change",
                         JObj(<<"email", "role">>, <<email, JStr(newRole)>>)))

\* The Block button of a row
ToggleBlock(email) ==
    /\ email \in RowEmails
    /\ \E updated \in {MapUser(email, "blocked",
                               LAMBDA x : JBool(~Truthy(Get(x, "blocked"))))} :
         Commit([Scene EXCEPT !.userList = updated], saveUsers(store, updated))

\* The Del button of a row, confirmed
DeleteUser(email) ==
    /\ email \in RowEmails
    /\ \E updated \in {JArr(SelectSeq(userList.vs, LAMBDA x : Get(x, "email") # email))} :
         Commit([Scene EXCEPT !.userList = updated], saveUsers(store, updated))

\* The page is loaded on a store without users that holds the analytics
\* log and the referral code earlier visits left.
InitUsers ==
    Mount([k \in UserKeys |->
             IF k = KEYS_REF_INCOMING THEN <<"REF123">>
             ELSE IF k = KEYS_ANALYTICS THEN JSONstringify(StoredAnalytics)
             ELSE Absent])

\* What is typed into the sign-up form: the email and the tab.
Signups == {<<"ind@x", "INDIVIDUAL">>, <<"org@x", "ORG">>}

NextUsers ==
    \/ OpenAuth
    \/ ShowSignup
    \/ ShowLogin
    \/ \E form \in Signups : HandleSignup(form[1], form[2])
    \/ \E c \in {<<"admin@virtunovo.com", "password">>, <<"ind@x", "pw">>} :
         HandleLogin(c[1], c[2])
    \/ Verify2FA("123456")
    \/ CloseAuth
    \/ Logout
    \/ EnterWorld
    \/ OnboardingComplete
    \/ Home
    \/ OpenUsers
    \/ CloseUsers
    \/ \E email \in RowEmails, newRole \in {"EDITOR"} : ChangeRole(email, newRole)
    \/ \E email \in {JStr("ind@x")} : ToggleBlock(email)
    \/ \E email \in RowEmails : DeleteUser(email)
    \/ WarpToEvent

SpecUsers == InitUsers /\ [][NextUsers]_vars

\* ------------------------------------------------------ campaign metrics

\* Billboard events in a behaviour of the campaign specification.
MaxCampaignEvents == 3

\* The properties a plain object ({}) inherits from Object.prototype; each
\* holds a function or an object, all truthy.
ObjectPrototypeKeys ==
    {"constructor", "__proto__", "hasOwnProperty", "isPrototypeOf",
     "propertyIsEnumerable", "toLocaleString", "toString", "valueOf",
     "__defineGetter__", "__defineSetter__", "__lookupGetter__", "__lookupSetter__"}

\* x || 'N/A'
OrNA(x) == IF Truthy(x) THEN x ELSE JStr("N/A")

\* The stored campaign log, as loadData reads it.
campaignLog(st) == loadData(st, KEYS_EVENTS_LOG, EmptyArr).ret.vs

NewBucket(id, e) ==
    JObj(<<"campaignId", "sponsorName", "impressions", "clicks", "dwell">>,
         <<id, OrNA(Get(e, "sponsorName")), JNum(0), JNum(0), JNum(0)>>)

\* map[id].field += n on a bucket of the map.
AddTo(bucket, field, n) == SetKey(bucket, field, JNum(Get(bucket, field).n + n))

\* The body of logs.forEach in metricsByCampaign.  map[id] of an id that is
\* not a bucket but names a property of Object.prototype reads that
\* inherited value: no bucket is made and the += lines write to the
\* inherited object, not to the map.
Counted(map, e) ==
    LET id == OrNA(Get(e, "campaignId"))
        type == Get(e, "type")
        seconds == IF Truthy(Get(e, "seconds")) THEN Get(e, "seconds").n ELSE 0
        bucket == IF HasKey(map, id.s) THEN Get(map, id.s) ELSE NewBucket(id, e)
        b1 == IF type = JStr("billboard_impression") THEN AddTo(bucket, "impressions", 1)
              ELSE bucket
        b2 == IF type = JStr("billboard_click") THEN AddTo(b1, "clicks", 1) ELSE b1
        b3 == IF type = JStr("billboard_dwell") THEN AddTo(b2, "dwell", seconds) ELSE b2
    IN  IF ~HasKey(map, id.s) /\ id.s \in ObjectPrototypeKeys THEN map
        ELSE SetKey(map, id.s, b3)

RECURSIVE CountedFrom(_, _, _)
CountedFrom(map, logs, i) ==
    IF i > Len(logs) THEN map
    ELSE With(Counted(map, logs[i]), LAMBDA acc : CountedFrom(acc, logs, i + 1))

\* metricsByCampaign of UnifiedControlPanel: Object.values(map).
metricsByCampaign(st) ==
    With(campaignLog(st), LAMBDA logs : JArr(CountedFrom(EmptyObj, logs, 1).vs))

\* The payloads of the billboard and portal events: id, seconds, sponsorName
\* and campaignId as the scene data of the billboard holds them (campaignId
\* is the text the admin typed, or missing).
BillboardPayload(seconds, sponsorName, campaignId) ==
    JObj(<<"id", "seconds", "sponsorName", "campaignId">>,
         <<JStr("BILLBOARD_0"), seconds, sponsorName, campaignId>>)

CampaignEvents ==
    { <<"billboard_impression", BillboardPayload(JUndefined, JStr("Acme"), JStr("CAMP_A"))>>,
      <<"billboard_click", BillboardPayload(JUndefined, JStr("Acme"), JStr("CAMP_A"))>>,
      <<"billboard_dwell", BillboardPayload(JNum(5), JStr("Acme"), JStr("CAMP_A"))>>,
      <<"billboard_dwell", BillboardPayload(JNum(3), JStr("Beta"), JStr("CAMP_B"))>>,
      <<"billboard_impression", BillboardPayload(JUndefined, JStr("Beta"), JUndefined)>>,
      <<"billboard_click", BillboardPayload(JUndefined, JStr("Beta"), JStr(""))>>,
      <<"event_portal_click", BillboardPayload(JUndefined, JStr("Acme"), JUndefined)>>,
      <<"billboard_impression", BillboardPayload(JUndefined, JStr("Acme"), JStr("constructor"))>> }

InitCampaign ==
    /\ store = EmptyStore
    /\ lastOp = NoOp
    /\ mounted = FALSE
    /\ migWrites = {}
    /\ migThrew = FALSE
    /\ Quiet
    /\ masterFlags = DEFAULT_MASTER_FLAGS
    /\ NoScene

\* A billboard or portal event: logEvent(type, payload).
LogCampaignEvent(type, payload) ==
    /\ Len(campaignLog(store)) < MaxCampaignEvents
    /\ \E st \in {logEvent(store, type, payload)} :
         /\ store' = st
         /\ lastOp' = [NoOp EXCEPT !.op = "logEvent", !.key = KEYS_EVENTS_LOG,
                                   !.wrote = TRUE, !.calls = 1]
    /\ UNCHANGED <<migVars, extVars, masterFlags, uiVars>>

\* The control panel is rendered: the metrics are computed from the stored
\* campaign log.
ShowMetrics ==
    /\ lastOp' = [NoOp EXCEPT !.op = "metricsByCampaign", !.key = KEYS_EVENTS_LOG,
                              !.def = JArr(campaignLog(store)),
                              !.ret = metricsByCampaign(store)]
    /\ UNCHANGED <<store, migVars, extVars, masterFlags, uiVars>>

NextCampaign ==
    \/ \E ev \in CampaignEvents : LogCampaignEvent(ev[1], ev[2])
    \/ ShowMetrics

SpecCampaign == InitCampaign /\ [][NextCampaign]_vars

\* ---------------------------------------------------------------- two tabs

\* Each tab runs the page on the one store of the origin.  A read-modify-write
\* of a tab is two steps: the read (loadData) and, later, the write (saveData)
\* of what it made of the value it read.  logEvent and registerUser read and
\* write in one call; UserManagementModal reads when it is mounted and writes
\* at the next click on a row.
MaxTabOps == 2

TabOps == {"logEvent", "registerUser", "toggleBlock"}

TabKey(op) == IF op = "logEvent" THEN KEYS_ANALYTICS ELSE USERS_DB_KEY

\* What a tab logs, whom it registers, whose Block button it clicks.
TabArgs(t, op) ==
    IF op = "logEvent" THEN {IF t = 1 THEN "enter_world" ELSE "guest_enter"}
    ELSE IF op = "registerUser" THEN {"new@x"}
    ELSE {"ind@x"}

\* userList.map(x => x.email === u.email ? { ...x, blocked: !x.blocked } : x)
toggleBlocked(list, email) ==
    JArr([i \in 1..Len(list.vs) |->
            IF Get(list.vs[i], "email") = email
            THEN SetKey(list.vs[i], "blocked", JBool(~Truthy(Get(list.vs[i], "blocked"))))
            ELSE list.vs[i]])

\* The write step of a tab that takes the value of the store at the time of
\* the write, as if the read and the write were one step.
tabWrite_Reread(st, job) ==
    IF job.op = "logEvent" THEN logEvent(st, job.arg, EmptyObj)
    ELSE IF job.op = "registerUser"
    THEN With(registerUser(st, SignupData(job.arg, "INDIVIDUAL")), LAMBDA r :
           IF r.success THEN r.store ELSE st)
    ELSE With(loadData(st, USERS_DB_KEY, EmptyArr).ret, LAMBDA list :
           saveUsers(st, toggleBlocked(list, JStr(job.arg))))

\* The write step of a tab on store st: the function runs on with the text
\* it read (job.text) and writes what it makes of it.
tabWrite(st, job) ==
    With([st EXCEPT ![TabKey(job.op)] = job.text], LAMBDA seen :
      IF job.op = "logEvent" THEN logEvent(seen, job.arg, EmptyObj)
      ELSE IF job.op = "registerUser"
      THEN With(registerUser(seen, SignupData(job.arg, "INDIVIDUAL")), LAMBDA r :
             IF r.success THEN r.store ELSE st)
      ELSE With(loadData(seen, USERS_DB_KEY, EmptyArr).ret, LAMBDA list :
             saveUsers(st, toggleBlocked(list, JStr(job.arg)))))

\* const logs = loadData(KEYS.ANALYTICS, []) / const users = loadData(USERS_DB_KEY, [])
TabRead(t, op, arg) ==
    /\ tabs[t].pc = "idle"
    /\ Len(tabs[t].done) < MaxTabOps
    /\ tabs' = [tabs EXCEPT ![t] = [pc |-> "read", op |-> op, arg |-> arg,
                                    text |-> getItem(store, TabKey(op)),
                                    done |-> tabs[t].done]]
    /\ UNCHANGED <<store, lastOp, migVars, masterFlags, uiVars, showCmdPalette, showInvite,
                   hasError, rootUnmounted, currentSponsor, sponsorRefs, toastVars, contentVars>>

\* saveData(KEYS.ANALYTICS, logs) / saveData(USERS_DB_KEY, ...)
TabWrite(t) ==
    /\ tabs[t].pc = "read"
    /\ store' = tabWrite(store, tabs[t])
    /\ tabs' = [tabs EXCEPT ![t] = [pc |-> "idle", op |-> "none", arg |-> "",
                                    text |-> <<>>,
                                    done |-> Append(tabs[t].done, tabs[t].op)]]
    /\ UNCHANGED <<lastOp, migVars, masterFlags, uiVars, showCmdPalette, showInvite,
                   hasError, rootUnmounted, currentSponsor, sponsorRefs, toastVars, contentVars>>

\* Two tabs on a store with one registered user; no tab has started.
InitTabs ==
    /\ store = [k \in UserKeys |->
                  IF k = USERS_DB_KEY THEN JSONstringify(JArr(<<IndividualUser>>))
                  ELSE Absent]
    /\ lastOp = NoOp
    /\ mounted = FALSE
    /\ migWrites = {}
    /\ migThrew = FALSE
    /\ Quiet
    /\ masterFlags = DEFAULT_MASTER_FLAGS
    /\ NoScene

NextTabs ==
    \/ \E t \in Tabs, op \in TabOps : \E arg \in TabArgs(t, op) : TabRead(t, op, arg)
    \/ \E t \in Tabs : TabWrite(t)

SpecTabs == InitTabs /\ [][NextTabs]_vars

\* ------------------------------------------------------- panels that throw

KEYS_REF_CODE == "VIRTUNOVO_REF_CODE"
KEYS_REF_MAP == "VIRTUNOVO_REF_MAP"
PanelKeys == SceneKeys \cup {KEYS_REF_CODE, KEYS_REF_MAP}

panelVars == <<showCmdPalette, showInvite, hasError, rootUnmounted>>

\* The places of the tree that are wrapped in a LocalErrorBoundary.
Boundaries ==
    {"AdminSidebarPanel", "BrandPreviewPanel", "GuidedTourOverlay", "CommandPalette",
     "TrustModals"}

\* CommandPalette({ isOpen, onClose, actions, sceneData }): SceneContent hands
\* it no sceneData, so Object.entries(sceneData) throws a TypeError whenever
\* isOpen is set.
CommandPaletteThrows(isOpen) == isOpen

\* The render of InviteModal on store st: a code is made and stored with a
\* bare localStorage.setItem when none is stored, then the code is entered
\* in the referral map with saveData.  Math.random gives the code.
InviteModal(st, user, full) ==
    IF getItem(st, KEYS_REF_CODE) \in {Absent, EmptyText} /\ KEYS_REF_CODE \in full
    THEN [threw |-> TRUE, store |-> st]
    ELSE
      With(IF getItem(st, KEYS_REF_CODE) \in {Absent, EmptyText}
           THEN setItem(st, KEYS_REF_CODE, <<"K3X9Q">>, FALSE).store ELSE st, LAMBDA st1 :
        LET code == getItem(st1, KEYS_REF_CODE)[1]
            refMap == loadData(st1, KEYS_REF_MAP, EmptyObj).ret
            email == IF Truthy(Get(user, "email")) THEN Get(user, "email") ELSE JNull
            name == IF Truthy(Get(user, "name")) THEN Get(user, "name") ELSE JStr("Guest")
        IN  [threw |-> FALSE,
             store |-> IF Truthy(Get(refMap, code)) THEN st1
                       ELSE saveData(st1, KEYS_REF_MAP,
                                     SetKey(refMap, code,
                                            JObj(<<"email", "name", "created">>,
                                                 <<email, name, JStr(Now)>>)),
                                     KEYS_REF_MAP \in full).store])

\* An error thrown while panel renders.  Under a LocalErrorBoundary:
\* getDerivedStateFromError sets hasError and componentDidCatch calls
\* logAdmin('ui_error', ...).  Under no boundary React unmounts the tree.
panelThrew(st, errs, panel) ==
    IF panel \in Boundaries
    THEN [store |-> logAdmin(st, "ui_error",
                             JObj(<<"message", "stack">>, <<JStr("error"), JStr(panel)>>)),
          hasError |-> errs \cup {panel}, unmounted |-> FALSE]
    ELSE [store |-> st, hasError |-> errs, unmounted |-> TRUE]

\* The render of the panels of SceneContent with the palette and the invite
\* modal as given.  A boundary that has caught renders its message and no
\* longer its children.
renderPanels(st, cmd, invite, errs, full) ==
    With(IF /\ Flag("enableCommandPalette") /\ "CommandPalette" \notin errs
            /\ CommandPaletteThrows(cmd)
         THEN panelThrew(st, errs, "CommandPalette")
         ELSE [store |-> st, hasError |-> errs, unmounted |-> FALSE], LAMBDA r1 :
      IF ~invite THEN r1
      ELSE With(InviteModal(r1.store, currentUser, full), LAMBDA r2 :
             IF r2.threw THEN panelThrew(r1.store, r1.hasError, "InviteModal")
             ELSE [r1 EXCEPT !.store = r2.store]))

Rendered(cmd, invite, full) ==
    \E r \in {renderPanels(store, cmd, invite, hasError, full)} :
      /\ store' = r.store
      /\ hasError' = r.hasError
      /\ rootUnmounted' = r.unmounted
      /\ showCmdPalette' = cmd
      /\ showInvite' = invite
      /\ UNCHANGED <<lastOp, migVars, masterFlags, uiVars, tabs, currentSponsor, sponsorRefs,
                     toastVars, contentVars>>

\* Ctrl+K or Cmd+K: setShowCmdPalette(p => !p)
ToggleCmdPalette ==
    /\ mounted /\ ~rootUnmounted
    /\ Len(adminLogs(store)) < MaxAdminLogs
    /\ Rendered(~showCmdPalette, showInvite, {})

\* The Invite button of the world view: setShowInvite(true)
OpenInvite(full) ==
    /\ mounted /\ ~rootUnmounted
    /\ InWorld /\ ~Overlay /\ ~showInvite
    /\ Rendered(showCmdPalette, TRUE, full)

\* InviteModal onClose
CloseInvite ==
    /\ mounted /\ ~rootUnmounted
    /\ showInvite
    /\ Rendered(showCmdPalette, FALSE, {})

\* A visitor is in the world; the audit log is on, or an admin has switched
\* it off and saved.
InitPanels ==
    \E f \in {Absent,
              JSONstringify(SetKey(DEFAULT_MASTER_FLAGS, "enableAuditLog", JBool(FALSE)))} :
      Mount([k \in PanelKeys |->
               IF k = MASTER_FLAGS_KEY THEN f
               ELSE IF k = AUTH_STATE_KEY THEN <<"WORLD">>
               ELSE Absent])

NextPanels ==
    \/ ToggleCmdPalette
    \/ \E full \in SUBSET {KEYS_REF_CODE} : OpenInvite(full)
    \/ CloseInvite
    \/ ~rootUnmounted /\ ~showInvite /\ Home
    \/ ~rootUnmounted /\ ~showInvite /\ EnterWorld
    \/ ~rootUnmounted /\ ~showInvite /\ OnboardingComplete

SpecPanels == InitPanels /\ [][NextPanels]_vars

\* ------------------------------------------------------- admin privilege

\* The names typed into the sign-up form.
SignupNames == {"Admin", "Eve"}

\* The sign-up form of the Individual tab with the given name.
SignupAs(name) == SetKey(SignupData("eve@x", "INDIVIDUAL"), "name", JStr(name))

\* The first visit: nothing is stored.
InitAdmin == Mount([k \in UserKeys |-> Absent])

NextAdmin ==
    \/ OpenAuth
    \/ ShowSignup
    \/ ShowLogin
    \/ \E name \in SignupNames : HandleSignupWith(SignupAs(name), "INDIVIDUAL")
    \/ \E c \in {<<"admin@virtunovo.com", "password">>, <<"eve@x", "pw">>,
                 <<"eve@x", "password">>} : HandleLogin(c[1], c[2])
    \/ \E code \in {"123456", "000000"} : Verify2FA(code)
    \/ CloseAuth
    \/ Logout
    \/ EnterWorld
    \/ OnboardingComplete
    \/ Home
    \/ VisitorView
    \/ AdminView
    \/ Unload(FALSE)
    \/ MountPage({})

SpecAdmin == InitAdmin /\ [][NextAdmin]_vars

\* ------------------------------------------------------- maintenance mode

\* The flags an admin saved with maintenance mode on.
MaintenanceFlags == SetKey(DEFAULT_MASTER_FLAGS, "maintenanceMode", JBool(TRUE))

\* A page load with no session, maintenance mode stored on or not stored.
InitMaintenance ==
    \E f \in {Absent, JSONstringify(MaintenanceFlags)} :
        Mount([StoreWithUsers EXCEPT ![MASTER_FLAGS_KEY] = f])

NextMaintenance ==
    \/ OpenAuth
    \/ \E c \in {<<"admin@virtunovo.com", "password">>, <<"ind@x", "pw">>} :
         HandleLogin(c[1], c[2])
    \/ Verify2FA("123456")
    \/ CloseAuth
    \/ Logout
    \/ EnterWorld
    \/ OnboardingComplete
    \/ Home
    \/ OpenMaster
    \/ ToggleFlag("maintenanceMode")
    \/ CloseMaster
    \/ Unload(FALSE)
    \/ MountPage({})

SpecMaintenance == InitMaintenance /\ [][NextMaintenance]_vars

\* ---------------------------------------------------------- daily missions

KEYS_DAILY_MISSIONS == "VIRTUNOVO_DAILY_MISSIONS"
KEYS_TICKETS == "VIRTUNOVO_TICKETS"
KEYS_STREAK == "VIRTUNOVO_STREAK"
KEYS_LAST_ACTIVE == "VIRTUNOVO_LAST_ACTIVE_DATE"
KEYS_VISITED_DISTRICTS == "VIRTUNOVO_VISITED_DISTRICTS"
STREAK_UPDATED_DATE == "STREAK_UPDATED_DATE"

MissionKeys ==
    UserKeys \cup {KEYS_DAILY_MISSIONS, KEYS_TICKETS, KEYS_STREAK, KEYS_LAST_ACTIVE,
                   KEYS_VISITED_DISTRICTS, STREAK_UPDATED_DATE}

MissionItem(id, title, goal, rewardPoints, rewardTickets, type) ==
    JObj(<<"id", "title", "goal", "current", "claimed", "rewardPoints", "rewardTickets",
           "type">>,
         <<JStr(id), JStr(title), JNum(goal), JNum(0), JBool(FALSE), JNum(rewardPoints),
           JNum(rewardTickets), JStr(type)>>)

\* newMissions of the mount effect of useGamification
newMissions ==
    JObj(<<"date", "items">>,
         <<JStr(Today),
           JArr(<<MissionItem("m1", "Visit 2 Districts", 2, 50, 0, "visit"),
                  MissionItem("m2", "Interact with Screen", 1, 30, 0, "interact"),
                  MissionItem("m3", "Collect 3 Crystals", 3, 100, 1, "collect")>>)>>)

MissionIds == {"m1", "m2", "m3"}
MissionTypes == {"visit", "interact", "collect"}

\* The mount effect of useGamification: the day's activity and the day's
\* missions.  The visit before, if any, was yesterday or earlier.
gamificationMount(st) ==
    With(IF getItem(st, KEYS_LAST_ACTIVE) # <<Today>>
         THEN saveData(setItem(setItem(st, KEYS_LAST_ACTIVE, <<Today>>, FALSE).store,
                               KEYS_STREAK, JSONstringify(JNum(0)), FALSE).store,
                       KEYS_VISITED_DISTRICTS, EmptyArr, FALSE).store
         ELSE st, LAMBDA st1 :
      With(loadData(st1, KEYS_DAILY_MISSIONS, JNull).ret, LAMBDA savedMissions :
        IF ~Truthy(savedMissions) \/ Get(savedMissions, "date") # JStr(Today)
        THEN saveData(st1, KEYS_DAILY_MISSIONS, newMissions, FALSE).store
        ELSE st1))

\* The streak step of a mission that reaches its goal.
streakUpdate(st) ==
    IF getItem(st, STREAK_UPDATED_DATE) # <<Today>>
    THEN setItem(setItem(st, KEYS_STREAK,
                         JSONstringify(JNum(storedInt(st, KEYS_STREAK) + 1)), FALSE).store,
                 STREAK_UPDATED_DATE, <<Today>>, FALSE).store
    ELSE st

\* The store after the first i items of data.items.map in updateMission.
RECURSIVE updateItems(_, _, _, _, _)
updateItems(st, items, type, amount, i) ==
    IF i = 0 THEN [store |-> st, items |-> <<>>, changed |-> FALSE]
    ELSE With(updateItems(st, items, type, amount, i - 1), LAMBDA r :
           LET m == items[i]
               current == Get(m, "current").n
               goal == Get(m, "goal").n
               newVal == IF current + amount < goal THEN current + amount ELSE goal
           IN  IF Get(m, "type") = JStr(type) /\ current < goal
               THEN [store |-> IF newVal # current /\ newVal = goal
                               THEN streakUpdate(
                                      logEvent(r.store, "mission_complete",
                                               JObj(<<"missionId">>, <<Get(m, "id")>>)))
                               ELSE r.store,
                     items |-> Append(r.items, SetKey(m, "current", JNum(newVal))),
                     changed |-> r.changed \/ newVal # current]
               ELSE [r EXCEPT !.items = Append(r.items, m)])

\* updateMission(type, amount)
updateMission(st, type, amount) ==
    With(loadData(st, KEYS_DAILY_MISSIONS, JNull).ret, LAMBDA data :
      IF ~Truthy(data) THEN st
      ELSE With(updateItems(st, Get(data, "items").vs, type, amount,
                            Len(Get(data, "items").vs)), LAMBDA r :
             IF r.changed
             THEN saveData(r.store, KEYS_DAILY_MISSIONS,
                           SetKey(data, "items", JArr(r.items)), FALSE).store
             ELSE r.store))

\* addTickets(tix)
addTickets(st, tix) ==
    setItem(st, KEYS_TICKETS, JSONstringify(JNum(storedInt(st, KEYS_TICKETS) + tix)),
            FALSE).store

\* data?.items?.find(x => x.id === id): the index, 0 for none.
RECURSIVE findMission(_, _, _)
findMission(items, id, i) ==
    IF i > Len(items) THEN 0
    ELSE IF Get(items[i], "id") = JStr(id) THEN i
    ELSE findMission(items, id, i + 1)

\* claimMission that does not look at m.claimed.
claimMission_Again(st, id) ==
    With(loadData(st, KEYS_DAILY_MISSIONS, JNull).ret, LAMBDA data :
      LET items == Get(data, "items")
          i == IF items.t = "arr" THEN findMission(items.vs, id, 1) ELSE 0
      IN  IF i # 0 /\ Get(items.vs[i], "current").n >= Get(items.vs[i], "goal").n
          THEN addTickets(
                 addPoints(saveData(st, KEYS_DAILY_MISSIONS,
                                    SetKey(data, "items",
                                           JArr([items.vs EXCEPT ![i] =
                                                   SetKey(@, "claimed", JBool(TRUE))])),
                                    FALSE).store,
                           Get(items.vs[i], "rewardPoints").n),
                 Get(items.vs[i], "rewardTickets").n)
          ELSE st)

\* claimMission(id)
claimMission(st, id) ==
    With(loadData(st, KEYS_DAILY_MISSIONS, JNull).ret, LAMBDA data :
      LET items == Get(data, "items")
          i == IF items.t = "arr" THEN findMission(items.vs, id, 1) ELSE 0
      IN  IF /\ i # 0
             /\ Get(items.vs[i], "current").n >= Get(items.vs[i], "goal").n
             /\ ~Truthy(Get(items.vs[i], "claimed"))
          THEN addTickets(
                 addPoints(saveData(st, KEYS_DAILY_MISSIONS,
                                    SetKey(data, "items",
                                           JArr([items.vs EXCEPT ![i] =
                                                   SetKey(@, "claimed", JBool(TRUE))])),
                                    FALSE).store,
                           Get(items.vs[i], "rewardPoints").n),
                 Get(items.vs[i], "rewardTickets").n)
          ELSE st)

\* The page has been loaded today on an empty store.
InitMissions ==
    /\ store = gamificationMount([k \in MissionKeys |-> Absent])
    /\ lastOp = NoOp
    /\ mounted = FALSE
    /\ migWrites = {}
    /\ migThrew = FALSE
    /\ Quiet
    /\ masterFlags = DEFAULT_MASTER_FLAGS
    /\ NoScene

\* A district entered for the first time today, a screen clicked, a crystal
\* collected.
UpdateMission(type) ==
    /\ store' = updateMission(store, type, 1)
    /\ lastOp' = [NoOp EXCEPT !.op = "updateMission", !.key = KEYS_DAILY_MISSIONS,
                              !.val = JStr(type), !.calls = 1]
    /\ UNCHANGED <<migVars, extVars, masterFlags, uiVars>>

\* onClaim(m.id) of MissionsModal, and any other call of claimMission.
ClaimMission(id) ==
    /\ \E st \in {claimMission(store, id)} :
         /\ store' = st
         /\ lastOp' = [NoOp EXCEPT !.op = "claimMission", !.key = KEYS_DAILY_MISSIONS,
                                   !.val = JStr(id), !.wrote = (st # store), !.calls = 1]
    /\ UNCHANGED <<migVars, extVars, masterFlags, uiVars>>

NextMissions ==
    \/ \E type \in MissionTypes : UpdateMission(type)
    \/ \E id \in MissionIds : ClaimMission(id)

SpecMissions == InitMissions /\ [][NextMissions]_vars

\* ------------------------------------------------------------ dwell time

\* The seconds a stay in range of a billboard lasts at most.
MaxDwell == 7

\* The payload of the billboard events of sponsorLeft and sponsorDwell.
dwellPayload(id, seconds) ==
    LET meta == IF Truthy(Get(sceneData, id)) THEN Get(sceneData, id) ELSE EmptyObj
    IN  JObj(<<"id", "seconds", "sponsorName", "campaignId">>,
             <<JStr(id), seconds, Get(meta, "sponsorName"), Get(meta, "campaignId")>>)

\* sponsorEntered(data), data being { id, ...sceneData[id] }
sponsorEntered(refs, id) ==
    IF ~Truthy(Get(Get(sceneData, id), "sponsorName")) THEN refs
    ELSE [refs EXCEPT !.inRange[id] = TRUE]

\* sponsorLeft(): the loop over the ids of inRangeRef.  The ids are taken
\* one by one; each in range logs its seconds and is reset.
RECURSIVE sponsorLeftFrom(_, _, _)
sponsorLeftFrom(st, refs, ids) ==
    IF ids = {} THEN [store |-> st, refs |-> refs]
    ELSE LET id == CHOOSE x \in ids : TRUE
         IN  IF ~refs.inRange[id] THEN sponsorLeftFrom(st, refs, ids \ {id})
             ELSE sponsorLeftFrom(
                    IF refs.dwellSeconds[id] > 0
                    THEN logEvent(st, "billboard_dwell",
                                  dwellPayload(id, JNum(refs.dwellSeconds[id])))
                    ELSE st,
                    [refs EXCEPT !.inRange[id] = FALSE, !.dwellSeconds[id] = 0,
                                 !.impressionLogged[id] = FALSE, !.lastDwellEmit[id] = 0],
                    ids \ {id})

sponsorLeft(st, refs) == sponsorLeftFrom(st, refs, BillboardIds)

\* sponsorDwell(id, delta)
sponsorDwell(st, refs, id, delta) ==
    IF ~refs.inRange[id] THEN [store |-> st, refs |-> refs]
    ELSE
      LET seconds == refs.dwellSeconds[id] + delta
          impression == ~refs.impressionLogged[id] /\ seconds >= 2
          emit == seconds - refs.lastDwellEmit[id] >= 5
      IN  With(IF impression
               THEN logEvent(st, "billboard_impression", dwellPayload(id, JUndefined))
               ELSE st, LAMBDA st1 :
            [store |-> IF emit THEN logEvent(st1, "billboard_dwell", dwellPayload(id, JNum(5)))
                       ELSE st1,
             refs |-> [refs EXCEPT
                         !.dwellSeconds[id] = seconds,
                         !.impressionLogged[id] = refs.impressionLogged[id] \/ impression,
                         !.lastDwellEmit[id] = IF emit THEN seconds ELSE @]])

\* The sum of the seconds of the billboard_dwell events of a log.
RECURSIVE dwellLogged(_, _)
dwellLogged(logs, i) ==
    IF i = 0 THEN 0
    ELSE dwellLogged(logs, i - 1)
         + (IF Get(logs[i], "type") = JStr("billboard_dwell") THEN Get(logs[i], "seconds").n
            ELSE 0)

DwellLogged(st, id) ==
    With(SelectSeq(analyticsLog(st), LAMBDA ev : Get(ev, "id") = JStr(id)),
         LAMBDA logs : dwellLogged(logs, Len(logs)))

\* A frame of ProximityTracker: found is the billboard within the threshold
\* ("" for none), delta the seconds since the frame before.  The stay
\* watched at a billboard is the first that logs dwell time there.
Frame(found, delta) ==
    /\ mounted /\ ~isAdmin
    /\ found # "" => /\ sponsorRefs.dwellSeconds[found] + delta <= MaxDwell
                     /\ (currentSponsor # found => DwellLogged(store, found) = 0)
    /\ \E r1 \in {IF found # "" /\ found # currentSponsor
                  THEN [store |-> store, refs |-> sponsorEntered(sponsorRefs, found)]
                  ELSE IF found = "" /\ currentSponsor # ""
                  THEN sponsorLeft(store, sponsorRefs)
                  ELSE [store |-> store, refs |-> sponsorRefs]} :
         \E r2 \in {IF found # "" THEN sponsorDwell(r1.store, r1.refs, found, delta)
                    ELSE r1} :
           /\ store' = r2.store
           /\ sponsorRefs' = r2.refs
    /\ currentSponsor' = found
    /\ UNCHANGED <<lastOp, migVars, masterFlags, uiVars, tabs, panelVars, toastVars, contentVars>>

\* The scene an admin saved once: two billboards with a sponsor.
SponsoredScene ==
    SetKey(DEFAULT_SCENE_DATA, "BILLBOARD_1",
           JObj(<<"sponsorName", "ctaUrl">>, <<JStr("CyberCola"), JStr("https://google.com")>>))

\* A visitor is in the world.
InitDwell ==
    Mount([EmptyStore EXCEPT ![AUTH_STATE_KEY] = <<"WORLD">>,
                             ![STORAGE_KEY] = JSONstringify(SponsoredScene)])

NextDwell ==
    \E found \in BillboardIds \cup {""}, delta \in {1, 2} : Frame(found, delta)

SpecDwell == InitDwell /\ [][NextDwell]_vars

\* ------------------------------------------------------------------ toasts

\* setTimeout(..., 4000), in seconds.
TOAST_SECONDS == 4

\* The seconds the clock runs.
MaxTime == 8

otherVars ==
    <<store, lastOp, migVars, masterFlags, uiVars, tabs, panelVars, currentSponsor,
      sponsorRefs, contentVars>>

\* showToast(msg, type): setToast({ msg, type }); setTimeout(() => setToast(null), 4000)
ShowToast(msg, type) ==
    /\ toast' = [msg |-> msg, type |-> type, at |-> now]
    /\ timers' = timers \cup {now + TOAST_SECONDS}
    /\ UNCHANGED <<now, otherVars>>

\* A setTimeout callback that is due runs: setToast(null)
TimerFires ==
    /\ \E due \in timers :
         /\ due <= now
         /\ timers' = timers \ {due}
    /\ toast' = NoToast
    /\ UNCHANGED <<now, otherVars>>

\* A second passes; the callbacks that are due have run.
Tick ==
    /\ now < MaxTime
    /\ \A due \in timers : due > now
    /\ now' = now + 1
    /\ UNCHANGED <<toast, timers, otherVars>>

InitToast ==
    /\ store = EmptyStore
    /\ lastOp = NoOp
    /\ mounted = FALSE
    /\ migWrites = {}
    /\ migThrew = FALSE
    /\ Quiet
    /\ masterFlags = DEFAULT_MASTER_FLAGS
    /\ NoScene

NextToast ==
    \/ \E m \in {<<"Scene Saved", "success">>, <<"Invalid Code", "error">>} :
         ShowToast(m[1], m[2])
    \/ TimerFires
    \/ Tick

SpecToast == InitToast /\ [][NextToast]_vars

\* ------------------------------------------------------ content publishing

SITE_CONFIG_KEY == "VIRTUNOVO_SITE_CONFIG"
SEO_CONFIG_KEY == "VIRTUNOVO_SEO_CONFIG"
SITE_VERSION_HISTORY_KEY == "VIRTUNOVO_SITE_VERSION_HISTORY"
ContentKeys == SceneKeys \cup {SITE_CONFIG_KEY, SEO_CONFIG_KEY, SITE_VERSION_HISTORY_KEY}

\* if (history.length > 10) history.pop()
HISTORY_CAP == 10

DEFAULT_SITE_CONFIG ==
    JObj(<<"heroTitle", "heroSubtitle", "aboutText", "contactText">>,
         <<JStr("VIRTUNOVO"), JStr("The Future of Virtual Real Estate"),
           JStr("Virtunovo is the world's first decentralized metaverse city."),
           JStr("Contact us at sales@virtunovo.com for land inquiries.")>>)

DEFAULT_SEO ==
    JObj(<<"metaTitle", "metaDescription", "ogImage">>, <<JStr(""), JStr(""), JStr("")>>)

\* { a: d.a, b: d.b, ... }: the named fields of d, undefined where d has none.
Pick(d, fields) == JObj(fields, [i \in 1..Len(fields) |-> Get(d, fields[i])])

\* handlePublish() with the draft d
handlePublish(st, d) ==
    LET newConfig == Pick(d, <<"heroTitle", "heroSubtitle", "aboutText", "contactText">>)
        newSeo == Pick(d, <<"metaTitle", "metaDescription", "ogImage">>)
    IN  With(saveData(saveData(st, SITE_CONFIG_KEY, newConfig, FALSE).store,
                      SEO_CONFIG_KEY, newSeo, FALSE).store, LAMBDA st1 :
          LET history == loadData(st1, SITE_VERSION_HISTORY_KEY, EmptyArr).ret.vs
              unshifted == <<JObj(<<"ts", "config">>, <<JStr(Now), newConfig>>)>> \o history
              capped == IF Len(unshifted) > HISTORY_CAP
                        THEN SubSeq(unshifted, 1, Len(unshifted) - 1) ELSE unshifted
          IN  [config |-> newConfig, seo |-> newSeo,
               store |-> logAdmin(saveData(st1, SITE_VERSION_HISTORY_KEY, JArr(capped),
                                           FALSE).store,
                                  "publish_content",
                                  JObj(<<"heroTitle">>, <<Get(newConfig, "heroTitle")>>))])

\* handleRollback(): the config it restores, undefined when the history is
\* empty.
handleRollback(st) ==
    With(loadData(st, SITE_VERSION_HISTORY_KEY, EmptyArr).ret.vs, LAMBDA history :
      IF Len(history) > 0
      THEN [prev |-> Get(history[1], "config"),
            store |-> saveData(st, SITE_CONFIG_KEY, Get(history[1], "config"), FALSE).store]
      ELSE [prev |-> JUndefined, store |-> st])

pageVars ==
    <<migVars, masterFlags, uiVars, tabs, panelVars, currentSponsor, sponsorRefs, now>>

\* The Content entry of the admin sidebar: ContentEditorPanel is rendered.
OpenContentEditor ==
    /\ config = JUndefined
    /\ \E c \in {loadData(store, SITE_CONFIG_KEY, DEFAULT_SITE_CONFIG).ret},
          o \in {loadData(store, SEO_CONFIG_KEY, DEFAULT_SEO).ret} :
         /\ config' = c
         /\ seo' = o
         /\ draft' = Spread(c, o)
    /\ UNCHANGED <<store, lastOp, pageVars, toast, timers>>

\* The panel is closed (another entry of the sidebar, or its close button).
CloseContentEditor ==
    /\ config # JUndefined
    /\ config' = JUndefined /\ seo' = JUndefined /\ draft' = JUndefined
    /\ UNCHANGED <<store, lastOp, pageVars, toast, timers>>

\* handleChange(field, val)
HandleChange(field, val) ==
    /\ config # JUndefined
    /\ draft' = SetKey(draft, field, JStr(val))
    /\ UNCHANGED <<store, lastOp, config, seo, pageVars, toast, timers>>

\* The Publish Changes button
HandlePublish ==
    /\ config # JUndefined
    /\ Len(adminLogs(store)) < MaxAdminLogs
    /\ \E r \in {handlePublish(store, draft)} :
         /\ store' = r.store
         /\ config' = r.config
         /\ seo' = r.seo
         /\ lastOp' = [NoOp EXCEPT !.op = "handlePublish", !.key = SITE_CONFIG_KEY,
                                   !.val = r.config, !.wrote = TRUE, !.calls = 1]
    /\ toast' = [msg |-> "Site Content Published", type |-> "success", at |-> now]
    /\ timers' = timers \cup {now + TOAST_SECONDS}
    /\ UNCHANGED <<draft, pageVars>>

\* The Rollback button
HandleRollback ==
    /\ config # JUndefined
    /\ \E r \in {handleRollback(store)} :
         /\ store' = r.store
         /\ config' = IF r.prev = JUndefined THEN config ELSE r.prev
         /\ draft' = IF r.prev = JUndefined THEN draft ELSE r.prev
         /\ lastOp' = [NoOp EXCEPT !.op = "handleRollback", !.key = SITE_CONFIG_KEY,
                                   !.val = r.prev, !.wrote = (r.prev # JUndefined),
                                   !.calls = 1]
         /\ toast' = IF r.prev = JUndefined THEN toast
                     ELSE [msg |-> "Rolled back to previous version", type |-> "info",
                           at |-> now]
         /\ timers' = IF r.prev = JUndefined THEN timers ELSE timers \cup {now + TOAST_SECONDS}
    /\ UNCHANGED <<seo, pageVars>>

\* Nothing has been published.
InitContent ==
    /\ store = [k \in ContentKeys |-> Absent]
    /\ lastOp = NoOp
    /\ mounted = FALSE
    /\ migWrites = {}
    /\ migThrew = FALSE
    /\ Quiet
    /\ masterFlags = DEFAULT_MASTER_FLAGS
    /\ NoScene

NextContent ==
    \/ OpenContentEditor
    \/ CloseContentEditor
    \/ \E val \in {"VIRTUNOVO 2", "VIRTUNOVO 3"} : HandleChange("heroTitle", val)
    \/ HandlePublish
    \/ HandleRollback

SpecContent == InitContent /\ [][NextContent]_vars

\* ------------------------------------------------------------ store claims

\* The JSON texts of the model, by generation: the texts JSON.stringify
\* writes for a JSON-safe value.
IsJsonText(text) == \E v \in JsonSafeVals : JSONstringify(v) = text
ValueOf(text) == CHOOSE v \in JsonSafeVals : JSONstringify(v) = text

\* C1: loadData never throws; it returns def when the key is absent, when the
\* stored text is empty or when it is not JSON, and the parsed value
\* otherwise; a load leaves the store unchanged.
C1_LoadNeverThrows ==
    [][lastOp'.op = "load" =>
         /\ ~lastOp'.threw
         /\ store' = store
         /\ LET s == store[lastOp'.key]
            IN  lastOp'.ret = IF s = Absent \/ s = EmptyText \/ ~IsJsonText(s)
                              THEN lastOp'.def
                              ELSE ValueOf(s)]_vars

\* C1 witness: a load of a key holding a text that is not JSON returned def.
C1_Witness ==
    /\ lastOp.op = "load"
    /\ store[lastOp.key] \in InvalidTexts
    /\ lastOp.ret = lastOp.def
    /\ \E k \in StoreKeys : IsJsonText(store[k])

\* C2: a failed write inside saveData is caught: nothing propagates, the
\* value stored under the key and every other key are unchanged, and the
\* write is not tried again.
C2_SaveFailureDropped ==
    [][lastOp'.op = "save" /\ lastOp'.failed =>
         /\ ~lastOp'.threw
         /\ ~lastOp'.wrote
         /\ store' = store
         /\ lastOp'.calls <= 1]_vars

\* C2 witness: setItem failed on a key that holds a value, which is still
\* there.
C2_Witness ==
    /\ lastOp.op = "save"
    /\ lastOp.failed
    /\ lastOp.calls = 1
    /\ IsJsonText(store[lastOp.key])
    /\ store[lastOp.key] # JSONstringify(lastOp.val)

\* C3: after a successful saveData(key, v) of a JSON-safe v, loadData(key,
\* def) returns a value deep-equal to v, never def, for every default.
C3_RoundTrip ==
    (lastOp.op = "save" /\ lastOp.wrote /\ lastOp.val \in JsonSafeVals)
        => \A def \in Defs :
               loadData(store, lastOp.key, def) = [ret |-> lastOp.val, threw |-> FALSE]

\* C3 witness: the empty string was saved, the stored text being two quotes.
C3_Witness ==
    /\ lastOp.op = "save"
    /\ lastOp.wrote
    /\ lastOp.val = JStr("")
    /\ store[lastOp.key] = <<"\"", "\"">>

\* -------------------------------------------------------- migration claims

\* The step in which the mount effect runs migrateLocalStorage.
MigrateStep == ~mounted /\ mounted'

\* The flag record the migration reads: loadData(MASTER_FLAGS_KEY, {}).
StoredFlags(st) == loadData(st, MASTER_FLAGS_KEY, EmptyObj).ret

\* Two flag records hold the same keys with the same values, in any order.
SameMapping(a, b) ==
    /\ a.t = "obj" /\ b.t = "obj"
    /\ KeySet(a) = KeySet(b)
    /\ \A k \in KeySet(a) : Get(a, k) = Get(b, k)

\* What the merge must produce from the stored record: every default key and
\* every stored key, the stored value where there is one, the default value
\* otherwise.
IsMergeOf(merged, stored) ==
    LET storedKeys == IF stored.t = "obj" THEN KeySet(stored) ELSE {}
    IN  /\ merged.t = "obj"
        /\ KeySet(merged) = KeySet(DEFAULT_MASTER_FLAGS) \cup storedKeys
        /\ \A k \in storedKeys : Get(merged, k) = Get(stored, k)
        /\ \A k \in KeySet(DEFAULT_MASTER_FLAGS) \ storedKeys :
               Get(merged, k) = Get(DEFAULT_MASTER_FLAGS, k)

\* C10 (amended): the flag migration leaves in masterFlags the merge of the
\* defaults and the stored record: all keys of both, stored values winning,
\* default values for keys only in the defaults, stored keys outside the
\* defaults kept.  It calls saveData for the flags key iff the JSON text of
\* the merge differs from the JSON text of the stored record, key order
\* included; the key then holds the text of the merge, or its old text when
\* the write fails or is not attempted.
C10_FlagMerge ==
    [][MigrateStep =>
         LET stored == StoredFlags(store)
             merged == masterFlags'
         IN  /\ IsMergeOf(merged, stored)
             /\ (MASTER_FLAGS_KEY \in migWrites')
                    <=> (JSONstringify(merged) # JSONstringify(stored))
             /\ store'[MASTER_FLAGS_KEY] \in
                    (IF MASTER_FLAGS_KEY \in migWrites'
                     THEN {store[MASTER_FLAGS_KEY], JSONstringify(merged)}
                     ELSE {store[MASTER_FLAGS_KEY]})]_vars

\* C10 witness: the migration ran on a record holding a flag the defaults
\* no longer list and a switched-off default flag, and wrote the merge.
C10_Witness ==
    /\ mounted
    /\ MASTER_FLAGS_KEY \in migWrites
    /\ Get(masterFlags, "legacyFlag") = JBool(TRUE)
    /\ Get(masterFlags, "enableAuditLog") = JBool(FALSE)
    /\ Get(masterFlags, "missionsForGuest") = JBool(TRUE)
    /\ store[MASTER_FLAGS_KEY] = JSONstringify(masterFlags)

\* C10 as stated: the merge is written iff it differs from the stored
\* record as a mapping of flag names to values.
C10_WrittenIffDiffers ==
    [][MigrateStep =>
         ((MASTER_FLAGS_KEY \in migWrites')
             <=> ~SameMapping(masterFlags', StoredFlags(store)))]_vars

\* ------------------------------------------------------------ scene claims

\* The viewer's account, as the session holds it.  An account made through
\* the sign-up form's ORG tab holds accountType 'org'; it is counted as an
\* organization account here.
IsGuest == ~isAdmin /\ ~Truthy(currentUser)
IsIndividual == ~isAdmin /\ Get(currentUser, "accountType") = JStr(ACCOUNT_INDIVIDUAL)
IsOrganization ==
    ~isAdmin /\ Get(currentUser, "accountType") \in {JStr(ACCOUNT_ORGANIZATION), JStr("org")}

\* The object shown in the brand panel and the organization it is assigned to.
SelectedAsset == IF Truthy(selectedId) THEN Get(sceneData, selectedId.s) ELSE JUndefined
ViewerOrgId == Get(Get(currentUser, "orgContext"), "orgId")
OwnerOrgId(asset) == Get(Get(asset, "brand"), "orgId")

\* The viewer is an organization whose orgId is the orgId of the brand
\* record of the selected object.
OwnsSelectedAsset ==
    /\ IsOrganization
    /\ Truthy(ViewerOrgId)
    /\ OwnerOrgId(SelectedAsset) = ViewerOrgId

\* C4: for a viewer who is not admin, the brand panel shows the metrics of
\* the selected object iff the viewer is an organization whose orgId equals
\* the orgId of the object's brand record; never for a guest or an
\* individual, whatever is selected.
C4_MetricsIffOwner ==
    (BrandPanelShown /\ ~isAdmin) => (BrandPanel.canSeeMetrics <=> OwnsSelectedAsset)

\* The events of the analytics log whose placement belongs to the viewer's
\* organization.
OwnedEvents ==
    SelectSeq(analyticsLog(store),
              LAMBDA ev : /\ Truthy(ViewerOrgId)
                          /\ Get(ev, "id").t = "str"
                          /\ OwnerOrgId(Get(sceneData, Get(ev, "id").s)) = ViewerOrgId)

\* C5: the numbers the brand panel shows to an organization that is not
\* admin are those of the log restricted to the events of its own
\* placements: the events of other placements do not change them.
C5_OnlyOwnEvents ==
    (BrandPanelShown /\ IsOrganization /\ BrandPanel.canSeeMetrics)
        => BrandPanel.metrics
             = BrandPreviewPanel([store EXCEPT ![KEYS_ANALYTICS] =
                                    JSONstringify(JArr(OwnedEvents))],
                                 BrandPanelProps).metrics

C7_BrandModeGate ==
    (LandingBrandToggleShown \/ BrandModeButtonShown \/ BrandPanelShown)
        => (isAdmin \/ IsOrganization)

\* C8: the progress drawer and its opener are shown only to an individual
\* account, with the showCustomerProgressDrawer flag on.
C8_ProgressOnlyIndividual ==
    (ProgressDrawerShown \/ ProgressOpenerShown)
        => (IsIndividual /\ Flag("showCustomerProgressDrawer"))

\* C9: for a guest in the world the missions and vault buttons are shown iff
\* the missionsForGuest flag is on, and their modals only when it is on.
C9_GuestMissionsFlag ==
    (IsGuest /\ InWorld /\ ~showOnboarding)
        => /\ MissionsButtonShown <=> Flag("missionsForGuest")
           /\ VaultButtonShown <=> Flag("missionsForGuest")
           /\ (MissionsModalShown \/ VaultModalShown) => Flag("missionsForGuest")

\* ------------------------------------------------------------- flag claims

HasDefaultFlags(o) ==
    With(o, LAMBDA v : \A i \in 1..Len(FlagNames) : HasKey(v, FlagNames[i]))
PersistedFlags == StoredFlags(store)

\* C11 as stated: once the migration has run, the persisted flag record
\* contains every key of the default flag set in every later state.
C11_PersistedHasDefaults == mounted => HasDefaultFlags(PersistedFlags)

\* C11: once the migration has run the flags in component state contain
\* every default key; a migration run leaves a persisted record that contains
\* them unless its write failed, which leaves the stored text as it was; and a
\* persisted record that contains them never loses one, through toggles,
\* Save (failed or not), resets and page loads.
C11_FlagsNeverDropped ==
    /\ [](mounted => HasDefaultFlags(masterFlags))
    /\ [][ /\ HasDefaultFlags(PersistedFlags) => HasDefaultFlags(PersistedFlags')
           /\ (~mounted /\ mounted')
                => \/ HasDefaultFlags(PersistedFlags')
                   \/ store'[MASTER_FLAGS_KEY] = store[MASTER_FLAGS_KEY] ]_vars

\* The migration wrote the merged flags, then the admin toggled a flag and
\* saved: the persisted record holds the toggled value and every default key.
C11_Witness ==
    /\ mounted
    /\ MASTER_FLAGS_KEY \in migWrites
    /\ HasDefaultFlags(PersistedFlags)
    /\ Get(PersistedFlags, "enableLeadsPanel") = JBool(FALSE)
    /\ PersistedFlags = masterFlags

\* The first migration run did what it set out to do: if it found the flags
\* to differ, its write went through.
FlagRunSucceeded ==
    /\ mounted
    /\ MASTER_FLAGS_KEY \in migWrites => store[MASTER_FLAGS_KEY] = JSONstringify(masterFlags)

\* C12: merging the defaults into an already merged record changes nothing,
\* for every stored record; so a migration run right after a successful one
\* does not write the flag record.
C12_MergeIdempotent ==
    /\ \A stored \in StoredFlagRecords \cup {PersistedFlags, JNull} :
         With(mergeFlags(stored), LAMBDA merged : mergeFlags(merged) = merged)
    /\ FlagRunSucceeded
         => \A full \in FullSets :
              MASTER_FLAGS_KEY \notin migrateLocalStorage(store, full).writes

\* A first run that had to write: new default flags merged into an earlier
\* version's record that also holds a flag no longer among the defaults.
C12_Witness ==
    /\ FlagRunSucceeded
    /\ MASTER_FLAGS_KEY \in migWrites
    /\ HasKey(PersistedFlags, "legacyFlag")
    /\ Get(PersistedFlags, "enableAuditLog") = JBool(FALSE)
    /\ HasDefaultFlags(PersistedFlags)

\* ------------------------------------------------- user migration claims

StoredUserList(st) == loadData(st, USERS_DB_KEY, EmptyArr).ret

\* after is before with the baseline role given to every record whose role
\* is missing or falsy, and nothing else changed.
RolesFilledIn(before, after) ==
    /\ after.t = "arr"
    /\ Len(after.vs) = Len(before.vs)
    /\ \A i \in 1..Len(before.vs) :
         /\ Truthy(Get(after.vs[i], "role"))
         /\ IF Truthy(Get(before.vs[i], "role"))
            THEN after.vs[i] = before.vs[i]
            ELSE /\ Get(after.vs[i], "role") = JStr(ROLE_VISITOR)
                 /\ \A k \in KeySet(before.vs[i]) \ {"role"} :
                      Get(after.vs[i], k) = Get(before.vs[i], k)
                 /\ KeySet(after.vs[i]) = KeySet(before.vs[i]) \cup {"role"}

\* C13 as stated: after the user migration every stored user has a role,
\* those that had one are unchanged, and so are number and order.
C13_AllUsersHaveRole ==
    [][MigrateStep /\ StoredUserList(store).t = "arr"
         => RolesFilledIn(StoredUserList(store), StoredUserList(store'))]_vars

\* C13: a migration run over a stored list of user records leaves the list
\* with the baseline role VISITOR filled in where the role was missing or
\* falsy, every other field, every user that had a role, the number and the
\* order of users unchanged; unless its write of the list failed, which
\* leaves the stored text as it was.
C13_RolesFilledIn ==
    [][MigrateStep /\ StoredUserList(store).t = "arr"
         => With(<<StoredUserList(store), StoredUserList(store')>>, LAMBDA c :
              \/ RolesFilledIn(c[1], c[2])
              \/ /\ USERS_DB_KEY \in migWrites'
                 /\ store'[USERS_DB_KEY] = store[USERS_DB_KEY])]_vars

\* The run rewrote a list of three: one user with a role, one without, one
\* with an empty role.
C13_Witness ==
    /\ mounted
    /\ USERS_DB_KEY \in migWrites
    /\ Len(StoredUserList(store).vs) = 3
    /\ Get(StoredUserList(store).vs[1], "role") = JStr("EDITOR")
    /\ Get(StoredUserList(store).vs[2], "role") = JStr(ROLE_VISITOR)
    /\ Get(StoredUserList(store).vs[3], "role") = JStr(ROLE_VISITOR)

\* ----------------------------------------------------- bootstrap claims

DefaultTextOf(i) == JSONstringify(EnterpriseDefaults[i])

\* C14 as stated: the run creates each auxiliary key with its default when
\* the key is absent, and leaves a key that holds a value as it is.
C14_CreatedIffAbsent ==
    [][MigrateStep
         => \A i \in 1..Len(EnterpriseKeys) :
              store'[EnterpriseKeys[i]] =
                IF store[EnterpriseKeys[i]] = Absent THEN DefaultTextOf(i)
                ELSE store[EnterpriseKeys[i]]]_vars

\* C14: a migration run changes an auxiliary key (season, leads, flights,
\* compliance notes) only if the key is absent or holds the empty string,
\* and then to the text of its default; a key holding any other text keeps
\* it.  An absent key is created unless the run ended in the users step by
\* an exception or the write of the key failed.
C14_Bootstrap ==
    [][MigrateStep
         => \A i \in 1..Len(EnterpriseKeys) :
              LET k == EnterpriseKeys[i]
              IN  /\ store'[k] \in {store[k], DefaultTextOf(i)}
                  /\ store[k] \notin {Absent, EmptyText} => store'[k] = store[k]
                  /\ k \in migWrites' <=> (~migThrew' /\ store[k] \in {Absent, EmptyText})
                  /\ (store[k] = Absent /\ ~migThrew')
                       => (store'[k] = DefaultTextOf(i) \/ store'[k] = Absent)]_vars

\* A run that created the leads list and the flights list and found a
\* season record and compliance notes that it left alone.
C14_Witness ==
    /\ mounted /\ ~migThrew
    /\ migWrites \cap {SEASON_KEY, BRAND_LEADS_KEY, FLIGHTS_KEY, COMPLIANCE_NOTES_KEY}
         = {BRAND_LEADS_KEY, FLIGHTS_KEY}
    /\ store[BRAND_LEADS_KEY] = JSONstringify(EmptyArr)
    /\ store[FLIGHTS_KEY] = JSONstringify(EmptyArr)
    /\ Get(loadData(store, SEASON_KEY, JNull).ret, "level") = JNum(3)
    /\ store[COMPLIANCE_NOTES_KEY] = <<"hello">>

\* ------------------------------------------------------- stale flag claim

\* C15: every gate follows the flags as the admin has toggled them, without
\* Save or reload: the control panel's Leads and Flights buttons are shown
\* iff enableLeadsPanel and enableFlightPlan are on, and no step taken while
\* enableAuditLog is off adds an entry to the admin log.
C15_GatesFollowToggle ==
    /\ [](ControlPanelShown
            => /\ LeadsButtonShown <=> Flag("enableLeadsPanel")
               /\ FlightsButtonShown <=> Flag("enableFlightPlan"))
    /\ [][(mounted /\ mounted' /\ ~Flag("enableAuditLog"))
            => adminLogs(store') = adminLogs(store)]_vars

\* --------------------------------------------------------------- log claims

EventsOf(logs, id) ==
    {i \in 1..Len(logs) : OrNA(Get(logs[i], "campaignId")) = id}

TypedEventsOf(logs, id, type) ==
    {i \in EventsOf(logs, id) : Get(logs[i], "type") = JStr(type)}

RECURSIVE SecondsOf(_, _)
SecondsOf(logs, is) ==
    IF is = {} THEN 0
    ELSE LET i == CHOOSE j \in is : TRUE
         IN  (IF Truthy(Get(logs[i], "seconds")) THEN Get(logs[i], "seconds").n ELSE 0)
             + SecondsOf(logs, is \ {i})

BucketsOf(buckets, id) ==
    {b \in 1..Len(buckets) : Get(buckets[b], "campaignId") = id}

\* C18: in the metrics computed from a campaign log, every event of the log
\* has exactly one bucket, that of its campaignId or the sentinel bucket, and
\* every bucket counts the impression events and the click events of its
\* campaign and sums the seconds of its dwell events.
C18_EveryEventInOneBucket ==
    lastOp.op = "metricsByCampaign" =>
        LET logs == lastOp.def.vs
            buckets == lastOp.ret.vs
        IN  /\ \A i \in 1..Len(logs) :
                 Cardinality(BucketsOf(buckets, OrNA(Get(logs[i], "campaignId")))) = 1
            /\ \A b \in 1..Len(buckets) :
                 LET id == Get(buckets[b], "campaignId")
                 IN  /\ Get(buckets[b], "impressions").n =
                          Cardinality(TypedEventsOf(logs, id, "billboard_impression"))
                     /\ Get(buckets[b], "clicks").n =
                          Cardinality(TypedEventsOf(logs, id, "billboard_click"))
                     /\ Get(buckets[b], "dwell").n =
                          SecondsOf(logs, TypedEventsOf(logs, id, "billboard_dwell"))

\* The number of events of a type in the stored analytics log.
LoggedCount(type) ==
    Cardinality({i \in 1..Len(analyticsLog(store)) :
                   Get(analyticsLog(store)[i], "type") = JStr(type)})

\* C19: the CTR the brand panel displays is the clicks of the log divided by
\* its impressions, as a percentage with two decimals, when the log holds an
\* impression, and 0 when it holds none.
C19_CtrIsRatioOrZero ==
    (BrandPanelShown /\ BrandPanel.canSeeMetrics)
        => BrandPanel.metrics.ctr
             = IF LoggedCount("billboard_impression") > 0
               THEN toFixed2(LoggedCount("billboard_click"),
                             LoggedCount("billboard_impression"))
               ELSE 0

\* ----------------------------------------------------------- user claims

\* No two records of a user list share an email.
EmailsUnique(users) ==
    With(users, LAMBDA us :
      us.t = "arr" =>
        \A i, j \in 1..Len(us.vs) :
            i # j => Get(us.vs[i], "email") # Get(us.vs[j], "email"))

\* C20: no two stored users share an email, whatever sequence of sign-ups,
\* role changes, blocks, deletions and point awards led to the state; a
\* sign-up with the email of a stored user fails and leaves every key as it
\* was, and any other sign-up appends one user with that email.
C20_EmailsUnique ==
    /\ [](EmailsUnique(StoredUserList(store)) /\ EmailsUnique(userList))
    /\ [][(lastOp' # lastOp /\ lastOp'.op = "registerUser") =>
            LET before == StoredUserList(store).vs
                after == StoredUserList(store').vs
                email == Get(lastOp'.val, "email")
            IN  IF findIndexByEmail(before, email, 1) # 0
                THEN lastOp'.ret = JBool(FALSE) /\ store' = store
                ELSE /\ lastOp'.ret = JBool(TRUE)
                     /\ Len(after) = Len(before) + 1
                     /\ SubSeq(after, 1, Len(before)) = before
                     /\ Get(after[Len(after)], "email") = email]_vars

\* A sign-up was refused while two users are stored, one with points awarded
\* and one whose role the admin changed.
C20_Witness ==
    /\ lastOp.op = "registerUser"
    /\ lastOp.ret = JBool(FALSE)
    /\ With(StoredUserList(store), LAMBDA us :
         /\ Len(us.vs) = 2
         /\ \E i \in 1..2 : Get(us.vs[i], "weeklyPoints") = JNum(5)
         /\ \E i \in 1..2 : Get(us.vs[i], "role") = JStr("EDITOR"))

\* --------------------------------------------------------------- save claim

\* C21: Save writes the scene and then the flags, independently and without
\* rollback.  When the write of the flags fails after the write of the scene
\* succeeded, the store holds the new scene with the flags as they were; a
\* step that changes the stored scene stores the scene of the component
\* state, with or without the flags, and no step puts an earlier scene back.
C21_SaveNotAtomic ==
    /\ [](mounted /\ isAdmin =>
            With(handleSave(store, {MASTER_FLAGS_KEY}), LAMBDA st :
              /\ st[STORAGE_KEY] = JSONstringify(sceneData)
              /\ st[MASTER_FLAGS_KEY] = store[MASTER_FLAGS_KEY]))
    /\ [][store'[STORAGE_KEY] # store[STORAGE_KEY] =>
            /\ store'[STORAGE_KEY] = JSONstringify(sceneData)
            /\ store'[MASTER_FLAGS_KEY]
                 \in {store[MASTER_FLAGS_KEY], JSONstringify(masterFlags)}]_vars

\* After a Save whose second write failed: the edited scene is stored, the
\* toggled flag is not.
C21_Witness ==
    /\ mounted
    /\ sceneData # DEFAULT_SCENE_DATA
    /\ store[STORAGE_KEY] = JSONstringify(sceneData)
    /\ ~Flag("enableLeadsPanel")
    /\ store[MASTER_FLAGS_KEY] # JSONstringify(masterFlags)
    /\ Len(adminLogs(store)) > 0
    /\ Get(adminLogs(store)[1], "action") = JStr("save_scene")

\* ------------------------------------------------------------- tabs claim

\* The list of emails of a stored or read user list.
EmailsOf(list) == [i \in 1..Len(list.vs) |-> Get(list.vs[i], "email")]

\* C22: nothing serialises the read-modify-writes of two tabs on one key.
\* The write of a tab stores what the tab made of the value it had read,
\* whatever the other tab has stored since: logEvent stores the log it read
\* with its entry appended, registerUser the list it read with the new user
\* appended (or nothing when it read that email), a row action of User
\* Management the list it read with that row changed.  The write never fails
\* and never looks at the value it replaces.
C22_LastWriterWins ==
    [][\A t \in Tabs :
         (tabs[t].pc = "read" /\ tabs'[t].pc = "idle") =>
           LET job == tabs[t]
               key == TabKey(job.op)
           IN  With(loadData([store EXCEPT ![key] = job.text], key, EmptyArr).ret,
                    LAMBDA before :
               With(loadData(store', key, EmptyArr).ret, LAMBDA after :
                 IF job.op = "logEvent"
                 THEN after.vs = Append(before.vs, eventEntry(job.arg, EmptyObj))
                 ELSE IF job.op = "registerUser"
                 THEN IF \E i \in 1..Len(before.vs) :
                            Get(before.vs[i], "email") = JStr(job.arg)
                      THEN store' = store
                      ELSE EmailsOf(after) = Append(EmailsOf(before), JStr(job.arg))
                 ELSE /\ EmailsOf(after) = EmailsOf(before)
                      /\ \A i \in 1..Len(before.vs) :
                           Truthy(Get(after.vs[i], "blocked")) =
                             IF Get(before.vs[i], "email") = JStr(job.arg)
                             THEN ~Truthy(Get(before.vs[i], "blocked"))
                             ELSE Truthy(Get(before.vs[i], "blocked"))))]_vars

\* Both tabs have logged an event and one entry is stored; the first tab has
\* registered new@x, the second has blocked a row of the list it read before,
\* and new@x is not stored.
C22_Witness ==
    /\ tabs[1].pc = "idle" /\ tabs[1].done = <<"logEvent", "registerUser">>
    /\ tabs[2].pc = "idle" /\ tabs[2].done = <<"logEvent", "toggleBlock">>
    /\ Len(analyticsLog(store)) = 1
    /\ EmailsOf(StoredUserList(store)) = <<JStr("ind@x")>>
    /\ Truthy(Get(StoredUserList(store).vs[1], "blocked"))

\* ------------------------------------------------------------ panels claim

\* C23: a panel that throws while rendering is caught by a boundary: the
\* boundary shows its message, an audit-log entry 'ui_error' is recorded, and
\* the rest of the application keeps rendering; no failure of a panel
\* unmounts the application.
C23_PanelFailureContained ==
    /\ [](~rootUnmounted)
    /\ [][hasError' # hasError =>
            /\ Len(adminLogs(store')) = Len(adminLogs(store)) + 1
            /\ Get(adminLogs(store')[1], "action") = JStr("ui_error")]_vars

\* What the boundaries do give: a throw under a boundary leaves the tree
\* mounted, and the entry is recorded when the stored flags have the audit
\* log on.
C23_BoundaryHolds ==
    [][hasError' # hasError =>
         /\ ~rootUnmounted'
         /\ hasError' \subseteq Boundaries
         /\ Truthy(Get(loadData(store, MASTER_FLAGS_KEY, DEFAULT_MASTER_FLAGS).ret,
                       "enableAuditLog"))
              => Get(adminLogs(store')[1], "action") = JStr("ui_error")]_vars

\* ------------------------------------------------------ rented-asset claim

\* The entries of the scene data whose brand record carries the orgId of the
\* viewer's organization.
RentedAssets ==
    {key \in KeySet(sceneData) :
       Truthy(ViewerOrgId) /\ OwnerOrgId(Get(sceneData, key)) = ViewerOrgId}

\* C24: to an organization account the "For Brands" toggle and the brand
\* panel are shown only if the organization rents an asset: at least one
\* entry of the scene data has brand.orgId equal to the account's orgId.
C24_BrandModeOnlyIfRenting ==
    (IsOrganization /\ (LandingBrandToggleShown \/ BrandPanelShown))
        => RentedAssets # {}

\* ------------------------------------------------------------- admin claim

\* C25: admin privilege is obtained only through the admin login.  isAdmin
\* becomes true only by the 2FA step of the auth modal, by the load of a page
\* whose store holds a persisted admin session, or by the return of the
\* logged-in admin ({ name: "Admin" } of the 2FA step) from the visitor view;
\* never for a user who logged in with a registered account.
C25_AdminOnlyByAdminLogin ==
    [][(~isAdmin /\ isAdmin') =>
         \/ authMode = "2FA"
         \/ ~mounted /\ store[IS_ADMIN_KEY] = <<"true">>
         \/ currentUser = AdminUser]_vars

\* ------------------------------------------------------- maintenance claim

\* C26: while the maintenanceMode flag is on, a viewer who is not admin never
\* leaves the landing view: after any step from the landing view, and after
\* any page load, such a viewer is on the landing view.
C26_MaintenanceKeepsLanding ==
    [][(/\ viewState = "LANDING" \/ ~mounted
        /\ mounted'
        /\ Truthy(Get(masterFlags', "maintenanceMode"))
        /\ ~isAdmin')
         => viewState' = "LANDING"]_vars

\* The one path the code does guard: the Enter button (enterWorld).
C26_EnterWorldGuarded ==
    [][(/\ mounted /\ viewState = "LANDING" /\ ~showOnboarding /\ authMode = "CLOSED"
        /\ Flag("maintenanceMode") /\ ~isAdmin)
         => (viewState' = "LANDING" /\ ~showOnboarding')]_vars

\* ----------------------------------------------------------- mission claim

\* The stored missions of the day, the points and the tickets.
MissionsOf(st) == Get(loadData(st, KEYS_DAILY_MISSIONS, JNull).ret, "items").vs
PointsOf(st) == storedInt(st, KEYS_POINTS)
TicketsOf(st) == storedInt(st, KEYS_TICKETS)

\* C27: the reward of a daily mission is granted at most once.  A step
\* changes the points, the tickets or a claimed mark only by granting one
\* mission that had reached its goal and was not claimed: it adds that
\* mission's points and tickets and marks it claimed in the same step.  A
\* claimed mission stays as it is, so a later claimMission for it changes
\* nothing.  The progress of every mission is between 0 and its goal.
C27_RewardAtMostOnce ==
    /\ [](\E ms \in {MissionsOf(store)} :
            \A i \in 1..Len(ms) :
              Get(ms[i], "current").n \in 0..Get(ms[i], "goal").n)
    /\ [][\E before \in {MissionsOf(store)}, after \in {MissionsOf(store')} :
            /\ Len(after) = Len(before)
            /\ \A i \in 1..Len(before) : Truthy(Get(before[i], "claimed")) => after[i] = before[i]
            /\ (\/ PointsOf(store') # PointsOf(store)
                \/ TicketsOf(store') # TicketsOf(store)
                \/ \E i \in 1..Len(before) : Get(after[i], "claimed") # Get(before[i], "claimed"))
                 => \E i \in 1..Len(before) :
                      /\ Get(before[i], "current").n >= Get(before[i], "goal").n
                      /\ ~Truthy(Get(before[i], "claimed"))
                      /\ after = [before EXCEPT ![i] = SetKey(@, "claimed", JBool(TRUE))]
                      /\ PointsOf(store') = PointsOf(store) + Get(before[i], "rewardPoints").n
                      /\ TicketsOf(store') = TicketsOf(store) + Get(before[i], "rewardTickets").n
                      /\ lastOp'.op = "claimMission" /\ lastOp'.val = Get(before[i], "id")
            /\ (lastOp'.op = "claimMission" /\ ~lastOp'.wrote) => store' = store]_vars

\* The three missions have been claimed, for 180 points and one ticket, and
\* the last call of claimMission, for a mission claimed before, changed
\* nothing.
C27_Witness ==
    /\ lastOp.op = "claimMission" /\ ~lastOp.wrote
    /\ \E ms \in {MissionsOf(store)} :
         /\ \A i \in 1..Len(ms) : Truthy(Get(ms[i], "claimed"))
         /\ \E i \in 1..Len(ms) : Get(ms[i], "id") = lastOp.val
    /\ PointsOf(store) = 180
    /\ TicketsOf(store) = 1

\* -------------------------------------------------------------- dwell claim

\* C28: dwell time is not counted twice.  For a stay of a viewer who is not
\* admin in range of a sponsored billboard, the seconds of the
\* billboard_dwell events logged for the stay, the periodic ones and the one
\* logged on leaving, sum to at most the seconds the stay has lasted.
C28_DwellNotCountedTwice ==
    /\ [](\A id \in BillboardIds :
            sponsorRefs.inRange[id]
              => DwellLogged(store, id) <= sponsorRefs.dwellSeconds[id])
    /\ [][\A id \in BillboardIds :
            (sponsorRefs.inRange[id] /\ ~sponsorRefs'.inRange[id])
              => DwellLogged(store', id) <= sponsorRefs.dwellSeconds[id]]_vars

\* What the code does log: while the viewer is in range the periodic events
\* stay within the time of the stay, and the event logged on leaving carries
\* the whole time of the stay again.
C28_LeaveLogsWholeStay ==
    /\ [](\A id \in BillboardIds :
            sponsorRefs.inRange[id]
              => DwellLogged(store, id) <= sponsorRefs.dwellSeconds[id])
    /\ [][\A id \in BillboardIds :
            (sponsorRefs.inRange[id] /\ ~sponsorRefs'.inRange[id])
              => DwellLogged(store', id)
                   = DwellLogged(store, id) + sponsorRefs.dwellSeconds[id]]_vars

\* -------------------------------------------------------------- toast claim

\* C29: every toast gets its full display time.  A toast is taken off the
\* screen, other than by a later showToast that replaces it, only when 4000
\* ms have passed since it was shown: the timer of an earlier toast never
\* removes a later one.
C29_ToastFullTime ==
    [][(toast # NoToast /\ toast' = NoToast) => now >= toast.at + TOAST_SECONDS]_vars

\* What the code gives: a toast is never shown for longer than 4000 ms, and
\* it is removed by the first timer that is due, its own or an earlier one.
C29_ToastAtMostFullTime ==
    /\ toast # NoToast => now <= toast.at + TOAST_SECONDS
    /\ toast # NoToast => (toast.at + TOAST_SECONDS) \in timers

\* ----------------------------------------------------------- rollback claim

\* The version history, newest first.
VersionHistory(st) == loadData(st, SITE_VERSION_HISTORY_KEY, EmptyArr).ret.vs

\* C30: content rollback restores the previous version.  After two or more
\* publishes handleRollback sets the persisted site config to the config
\* that was live before the most recent publish (the second entry of the
\* history), not to the config just published.
C30_RollbackRestoresPrevious ==
    [][(lastOp' # lastOp /\ lastOp'.op = "handleRollback") =>
         With(VersionHistory(store), LAMBDA history :
           Len(history) >= 2 =>
             store'[SITE_CONFIG_KEY] = JSONstringify(Get(history[2], "config")))]_vars

\* What the code does: rollback writes the newest entry of the history, which
\* is the config the last publish made live.
C30_RollbackWritesNewest ==
    [][(lastOp'.op = "handleRollback" /\ lastOp'.wrote) =>
         With(VersionHistory(store), LAMBDA history :
           /\ store'[SITE_CONFIG_KEY] = JSONstringify(Get(history[1], "config"))
           /\ VersionHistory(store') = history)]_vars

====
